---- MODULE Spec2Model ----
(***************************************************************************)
(* Model of the attribution engine of ziprecruiter_ad_metrics.py           *)
(* (class AttributionModel): the five attribution policies and the         *)
(* lookback filter, as operators over a touchpoint list, driven by a state *)
(* machine whose actions are the calls a client can make on one            *)
(* AttributionModel object.                                                *)
(*                                                                         *)
(* Numbers.  The code computes in binary floating point; the model         *)
(* computes in exact arithmetic, so "equals 1.0" below means equality of   *)
(* the real numbers the float expressions denote (what the code gives up   *)
(* to rounding error).  A rational is a pair <<p, q>> in lowest terms with *)
(* q > 0.  The time-decay weights 0.5 ** (k / h) are irrational in         *)
(* general; they are elements of the field Q(r), r = 0.5^(1/h), written    *)
(* as sequences of h rational coefficients over the basis r^0 .. r^(h-1)   *)
(* (the basis is linearly independent over Q, so equal reals have equal    *)
(* sequences).                                                             *)
(***************************************************************************)
EXTENDS Integers, Sequences, FiniteSets, TLC

\* ------------------------------------------------------------------ bounds

\* Longest touchpoint list drawn as input.
MaxLen == 3

\* ISO timestamp strings, as <<day of the year, hour>>.
EarlyTimestamp == <<1, 12>>
LateTimestamp == <<2, 12>>

\* The touchpoints journeys are made of: four of the channels of
\* channels_pool, one of them met at both instants.  Lists over them hold
\* pairwise distinct channels, repeated channels and repeated touchpoints,
\* in and out of chronological order.
Touchpoint ==
    { [channel |-> "google_ads", timestamp |-> EarlyTimestamp],
      [channel |-> "facebook", timestamp |-> EarlyTimestamp],
      [channel |-> "linkedin", timestamp |-> LateTimestamp],
      [channel |-> "email", timestamp |-> LateTimestamp],
      [channel |-> "google_ads", timestamp |-> LateTimestamp] }

Channels == {tp.channel : tp \in Touchpoint}
Timestamps == {tp.timestamp : tp \in Touchpoint}

\* Default of the constructor's lookback_window_days.
DefaultLookbackWindow == 30

\* Values of the constructor's lookback_window_days.
LookbackWindows == {1, DefaultLookbackWindow}

\* Conversion instants handed to apply_lookback_window, as <<day, hour>>:
\* with the windows above their cutoffs fall before, on and after each
\* timestamp.
ConversionDates == {<<2, 12>>, <<3, 0>>, <<31, 12>>, <<32, 0>>, <<32, 12>>}

\* Default of time_decay_attribution's half_life_days.
DefaultHalfLife == 7

\* Half-life values tried besides the default (0 violates "must be > 0").
MaxHalfLife == 2

HalfLives == (0..MaxHalfLife) \cup {DefaultHalfLife}

\* ---------------------------------------------------------------- rationals

RECURSIVE GCD(_, _)
GCD(a, b) == IF b = 0 THEN a ELSE GCD(b, a % b)

Abs(x) == IF x < 0 THEN -x ELSE x

\* The rational p/q (q # 0) in lowest terms with a positive denominator.
Rat(p, q) ==
    LET g == GCD(Abs(p), Abs(q))
        s == IF q < 0 THEN -1 ELSE 1
    IN  <<(s * p) \div g, (s * q) \div g>>

RZero == <<0, 1>>
ROne == <<1, 1>>

RAdd(x, y) == Rat(x[1] * y[2] + y[1] * x[2], x[2] * y[2])
RSub(x, y) == Rat(x[1] * y[2] - y[1] * x[2], x[2] * y[2])
RMul(x, y) == Rat(x[1] * y[1], x[2] * y[2])
\* x / y, y # 0
RDiv(x, y) == Rat(x[1] * y[2], x[2] * y[1])
RLess(x, y) == x[1] * y[2] < y[1] * x[2]

\* First-and-last weights handed to u_shaped_attribution: 0.0, the default
\* 0.4, 0.5, and 0.6 (above the 0.5 the remaining credit allows).
DefaultFirstLastWeight == Rat(2, 5)

FirstLastWeights == {Rat(0, 1), DefaultFirstLastWeight, Rat(1, 2), Rat(3, 5)}

\* ------------------------------------------------------------- dictionaries

\* A Python dict is a function whose domain is the set of keys present.
EmptyDict == [k \in {} |-> RZero]

\* attribution[key] = value
DictSet(d, key, value) ==
    [k \in (DOMAIN d) \cup {key} |-> IF k = key THEN value ELSE d[k]]

\* RDictAdd with the accumulation lost: attribution[key] = x.
RDictAdd_Overwrite(d, key, x) == DictSet(d, key, x)

\* attribution[key] += x on a defaultdict(float) of rational credits: a
\* missing key starts at 0.0.
RDictAdd(d, key, x) ==
    DictSet(d, key, RAdd(IF key \in DOMAIN d THEN d[key] ELSE RZero, x))

\* The sum of a dict's rational values.
RECURSIVE RSumOver(_, _)
RSumOver(d, keys) ==
    IF keys = {} THEN RZero
    ELSE LET k == CHOOSE x \in keys : TRUE
         IN  RAdd(d[k], RSumOver(d, keys \ {k}))

RDictSum(d) == RSumOver(d, DOMAIN d)

\* ------------------------------------------------------- the field Q(r)

\* The sequence f itself, with its elements computed once.
Tuple(f) == f \o <<>>

\* An element of Q(r), r = 0.5^(1/h): the sequence c of h rationals stands
\* for c[1] + c[2]*r + .. + c[h]*r^(h-1).
VZero(h) == Tuple([j \in 1..h |-> RZero])
VOne(h) == Tuple([j \in 1..h |-> IF j = 1 THEN ROne ELSE RZero])
VAdd(a, b) == Tuple([j \in 1..Len(a) |-> RAdd(a[j], b[j])])

\* The coefficient of r^m in a * b, summed from r^i on: a's r^i meets b's
\* r^j with i + j = m, or with i + j = m + h, where r^h is 1/2.
RECURSIVE VMulCoeff(_, _, _, _)
VMulCoeff(a, b, m, i) ==
    LET h == Len(a)
    IN  IF i >= h THEN RZero
        ELSE RAdd(IF i <= m THEN RMul(a[i + 1], b[m - i + 1])
                  ELSE RMul(Rat(1, 2), RMul(a[i + 1], b[m + h - i + 1])),
                  VMulCoeff(a, b, m, i + 1))

\* The product in Q(r).
VMul(a, b) == Tuple([j \in 1..Len(a) |-> VMulCoeff(a, b, j - 1, 0)])

\* 2^e
RECURSIVE Pow2(_)
Pow2(e) == IF e = 0 THEN 1 ELSE 2 * Pow2(e - 1)

\* HalfPow with * typed for **: 0.5 * (k / h).
HalfPow_Times(k, h) ==
    Tuple([j \in 1..h |-> IF j = 1 THEN Rat(k, 2 * h) ELSE RZero])

\* 0.5 ** (k / h) for integers k >= 0 and h > 0: (1/2)^(k div h) * r^(k mod h).
HalfPow(k, h) ==
    Tuple([j \in 1..h |-> IF j - 1 = k % h THEN Rat(1, Pow2(k \div h)) ELSE RZero])

\* A quotient num / den of two elements of Q(r), den # 0.  Quotients are
\* not kept in a normal form: compare them with QEq.
Quot(num, den) == [num |-> num, den |-> den]
QZero(h) == Quot(VZero(h), VOne(h))
QOne(h) == Quot(VOne(h), VOne(h))

QAdd(x, y) ==
    IF x.num = VZero(Len(x.num)) THEN y
    ELSE IF x.den = y.den THEN Quot(VAdd(x.num, y.num), x.den)
    ELSE Quot(VAdd(VMul(x.num, y.den), VMul(y.num, x.den)), VMul(x.den, y.den))

QEq(x, y) == VMul(x.num, y.den) = VMul(y.num, x.den)

\* attribution[key] += x on a defaultdict(float) of credits in Q(r), whose
\* elements have h coefficients: a missing key starts at 0.0.
QDictAdd(d, key, x, h) ==
    DictSet(d, key, QAdd(IF key \in DOMAIN d THEN d[key] ELSE QZero(h), x))

\* The sum of a dict's Q(r) quotient values.
RECURSIVE QSumOver(_, _, _)
QSumOver(d, keys, h) ==
    IF keys = {} THEN QZero(h)
    ELSE LET k == CHOOSE x \in keys : TRUE
         IN  QAdd(QSumOver(d, keys \ {k}, h), d[k])

QDictSum(d, h) == QSumOver(d, DOMAIN d, h)

\* -------------------------------------------------------------- touchpoints

\* Every touchpoint list of length 0 .. MaxLen.
TouchpointLists == UNION {[1..n -> Touchpoint] : n \in 0..MaxLen}

\* --------------------------------------------------------------- the state

VARIABLES
    touchpoints,      \* the caller's touchpoint list
    lookback_window,  \* AttributionModel.lookback_window
    call,             \* the last call made: its name and arguments
    result            \* what that call returned

vars == <<touchpoints, lookback_window, call, result>>

\* A call that returned `value`.
Returned(value) == [raised |-> FALSE, value |-> value]

\* A call that ended in an exception.
Raised(exc) == [raised |-> TRUE, value |-> exc]

\* ----------------------------------------------------------- the policies

\* last_click_attribution reading touchpoints[0] for touchpoints[-1].
last_click_attribution_First(tps) ==
    IF Len(tps) = 0 THEN Returned(EmptyDict)
    ELSE Returned(DictSet(EmptyDict, tps[1].channel, ROne))

\* last_click_attribution(touchpoints)
last_click_attribution(tps) ==
    IF Len(tps) = 0 THEN Returned(EmptyDict)
    ELSE LET last_touchpoint == tps[Len(tps)]
         IN  Returned(DictSet(EmptyDict, last_touchpoint.channel, ROne))

\* first_click_attribution(touchpoints)
first_click_attribution(tps) ==
    IF Len(tps) = 0 THEN Returned(EmptyDict)
    ELSE LET first_touchpoint == tps[1]
         IN  Returned(DictSet(EmptyDict, first_touchpoint.channel, ROne))

\* The loop of linear_attribution over touchpoints[i..]:
\* attribution[touchpoint['channel']] += credit_per_touch.
RECURSIVE LinearLoop(_, _, _, _)
LinearLoop(attribution, tps, i, credit_per_touch) ==
    IF i > Len(tps) THEN attribution
    ELSE LinearLoop(RDictAdd(attribution, tps[i].channel, credit_per_touch),
                    tps, i + 1, credit_per_touch)

\* linear_attribution(touchpoints)
linear_attribution(tps) ==
    IF Len(tps) = 0 THEN Returned(EmptyDict)
    ELSE LET credit_per_touch == RDiv(ROne, Rat(Len(tps), 1))
         IN  Returned(LinearLoop(EmptyDict, tps, 1, credit_per_touch))

\* DecayWeights with the decay reversed: 0.5 ** (i / half_life_days).
DecayWeights_Reversed(tps, half_life_days) ==
    Tuple([p \in 1..Len(tps) |-> HalfPow(p - 1, half_life_days)])

\* The weights list of time_decay_attribution: the touchpoint at 1-based
\* position p (0-based i = p - 1) gets 0.5 ** ((len - i - 1) / half_life_days).
DecayWeights(tps, half_life_days) ==
    Tuple([p \in 1..Len(tps) |-> HalfPow(Len(tps) - (p - 1) - 1, half_life_days)])

\* sum(weights)
RECURSIVE VSumSeq(_, _, _)
VSumSeq(weights, i, h) ==
    IF i > Len(weights) THEN VZero(h)
    ELSE VAdd(weights[i], VSumSeq(weights, i + 1, h))

\* NormalizedWeights with the normalisation left out: the raw weights.
NormalizedWeights_Raw(weights, total_weight) ==
    Tuple([p \in 1..Len(weights) |->
              Quot(weights[p], VOne(Len(total_weight)))])

\* [w / total_weight for w in weights]
NormalizedWeights(weights, total_weight) ==
    Tuple([p \in 1..Len(weights) |-> Quot(weights[p], total_weight)])

\* The credit loop of time_decay_attribution over zip(touchpoints,
\* normalized_weights) from position i: attribution[channel] += weight.
RECURSIVE DecayLoop(_, _, _, _, _)
DecayLoop(attribution, tps, normalized_weights, i, h) ==
    IF i > Len(tps) THEN attribution
    ELSE DecayLoop(QDictAdd(attribution, tps[i].channel, normalized_weights[i], h),
                   tps, normalized_weights, i + 1, h)

\* time_decay_attribution dividing by half_life_days before it looks at the
\* list: a zero half-life raises on an empty list too.
time_decay_attribution_DivideFirst(tps, half_life_days) ==
    IF half_life_days = 0 THEN Raised("ZeroDivisionError")
    ELSE IF Len(tps) = 0 THEN Returned(EmptyDict)
    ELSE LET weights == DecayWeights(tps, half_life_days)
             total_weight == VSumSeq(weights, 1, half_life_days)
         IN  Returned(DecayLoop(EmptyDict, tps,
                                NormalizedWeights(weights, total_weight), 1,
                                half_life_days))

\* time_decay_attribution(touchpoints, half_life_days).  Its two divisions
\* raise on a zero divisor: days_before_conversion / half_life_days and
\* w / total_weight.
time_decay_attribution(tps, half_life_days) ==
    IF Len(tps) = 0 THEN Returned(EmptyDict)
    ELSE IF half_life_days = 0 THEN Raised("ZeroDivisionError")
    ELSE LET weights == DecayWeights(tps, half_life_days)
             total_weight == VSumSeq(weights, 1, half_life_days)
             normalized_weights == NormalizedWeights(weights, total_weight)
         IN  IF total_weight = VZero(half_life_days)
             THEN Raised("ZeroDivisionError")
             ELSE Returned(DecayLoop(EmptyDict, tps, normalized_weights, 1,
                                     half_life_days))

\* The loop of u_shaped_attribution over touchpoints[1:-1], from 1-based
\* position i: attribution[touchpoint['channel']] += middle_credit.
RECURSIVE MiddleLoop(_, _, _, _)
MiddleLoop(attribution, tps, i, middle_credit) ==
    IF i > Len(tps) - 1 THEN attribution
    ELSE MiddleLoop(RDictAdd(attribution, tps[i].channel, middle_credit),
                    tps, i + 1, middle_credit)

\* MiddleCredit shared among all but one touchpoint instead of the middle
\* ones: (1 - 2 * first_last_weight) / (n - 1).
MiddleCredit_OffByOne(n, first_last_weight) ==
    RDiv(RSub(ROne, RMul(Rat(2, 1), first_last_weight)), Rat(n - 1, 1))

\* MiddleCredit kept from going negative: max(0, ...).
MiddleCredit_Clamped(n, first_last_weight) ==
    LET credit == RDiv(RSub(ROne, RMul(Rat(2, 1), first_last_weight)),
                       Rat(n - 2, 1))
    IN  IF RLess(credit, RZero) THEN RZero ELSE credit

\* middle_credit of u_shaped_attribution on n >= 3 touchpoints:
\* (1 - 2 * first_last_weight) / (n - 2)
MiddleCredit(n, first_last_weight) ==
    RDiv(RSub(ROne, RMul(Rat(2, 1), first_last_weight)), Rat(n - 2, 1))

\* u_shaped_attribution(touchpoints, first_last_weight): the first and the
\* last channel are assigned (=), the middle ones accumulated (+=).
u_shaped_attribution(tps, first_last_weight) ==
    IF Len(tps) = 0 THEN Returned(EmptyDict)
    ELSE IF Len(tps) = 1 THEN Returned(DictSet(EmptyDict, tps[1].channel, ROne))
    ELSE IF Len(tps) = 2
         THEN Returned(DictSet(DictSet(EmptyDict, tps[1].channel, Rat(1, 2)),
                               tps[2].channel, Rat(1, 2)))
    ELSE LET ends == DictSet(DictSet(EmptyDict, tps[1].channel, first_last_weight),
                             tps[Len(tps)].channel, first_last_weight)
             middle_credit == MiddleCredit(Len(tps), first_last_weight)
         IN  Returned(MiddleLoop(ends, tps, 2, middle_credit))

\* A datetime, in hours: what datetime.fromisoformat makes of a timestamp
\* string, and what a conversion instant <<day, hour>> is.
fromisoformat(ts) == ts[1] * 24 + ts[2]

\* timedelta(days=d), in hours
timedelta(days) == days * 24

\* InWindow with a strict comparison: a touchpoint at the cutoff is dropped.
InWindow_Strict(tp, cutoff_date) == fromisoformat(tp.timestamp) > cutoff_date

\* The filter condition of apply_lookback_window.
InWindow(tp, cutoff_date) == fromisoformat(tp.timestamp) >= cutoff_date

\* apply_lookback_window(touchpoints, conversion_date) on a model whose
\* lookback_window is `window`.
apply_lookback_window(window, tps, conversion_date) ==
    LET cutoff_date == conversion_date - timedelta(window)
        valid(tp) == InWindow(tp, cutoff_date)
    IN  Returned(SelectSeq(tps, valid))

\* ------------------------------------------------------------- the machine

Init ==
    /\ touchpoints \in TouchpointLists
    /\ lookback_window \in LookbackWindows
    /\ call = [op |-> "init"]
    /\ result = Returned(EmptyDict)

LastClick ==
    /\ call' = [op |-> "last_click"]
    /\ result' = last_click_attribution(touchpoints)
    /\ UNCHANGED <<touchpoints, lookback_window>>

FirstClick ==
    /\ call' = [op |-> "first_click"]
    /\ result' = first_click_attribution(touchpoints)
    /\ UNCHANGED <<touchpoints, lookback_window>>

Linear ==
    /\ call' = [op |-> "linear"]
    /\ result' = linear_attribution(touchpoints)
    /\ UNCHANGED <<touchpoints, lookback_window>>

TimeDecay ==
    \E half_life_days \in HalfLives :
        /\ call' = [op |-> "time_decay", half_life_days |-> half_life_days]
        /\ result' = time_decay_attribution(touchpoints, half_life_days)
        /\ UNCHANGED <<touchpoints, lookback_window>>

UShaped ==
    \E first_last_weight \in FirstLastWeights :
        /\ call' = [op |-> "u_shaped", first_last_weight |-> first_last_weight]
        /\ result' = u_shaped_attribution(touchpoints, first_last_weight)
        /\ UNCHANGED <<touchpoints, lookback_window>>

\* ApplyLookbackWindow filtering the caller's list in place
\* (touchpoints[:] = [...]) instead of building a new one.
ApplyLookbackWindow_InPlace ==
    \E conversion_date \in ConversionDates :
        /\ call' = [op |-> "apply_lookback_window",
                    conversion_date |-> fromisoformat(conversion_date)]
        /\ result' = apply_lookback_window(lookback_window, touchpoints,
                                           fromisoformat(conversion_date))
        /\ touchpoints' = result'.value
        /\ UNCHANGED lookback_window

ApplyLookbackWindow ==
    \E conversion_date \in ConversionDates :
        /\ call' = [op |-> "apply_lookback_window",
                    conversion_date |-> fromisoformat(conversion_date)]
        /\ result' = apply_lookback_window(lookback_window, touchpoints,
                                           fromisoformat(conversion_date))
        /\ UNCHANGED <<touchpoints, lookback_window>>

Next ==
    \/ LastClick
    \/ FirstClick
    \/ Linear
    \/ TimeDecay
    \/ UShaped
    \/ ApplyLookbackWindow

Spec == Init /\ [][Next]_vars

\* ------------------------------------------------------ the metric formulas
\* (class ZipRecruiterAdMetrics).  A metric returns a pair (value, message);
\* the message is modelled by its fixed wording, without the number
\* formatted into it.

\* float('inf')
Infinity == <<1, 0>>

\* ZipRecruiterAdMetrics.industry_benchmarks
industry_benchmarks ==
    [ ctr |-> [poor |-> Rat(5, 1000), average |-> Rat(15, 1000),
               good |-> Rat(3, 100), excellent |-> Rat(5, 100)],
      cvr |-> [poor |-> Rat(5, 1000), average |-> Rat(15, 1000),
               good |-> Rat(3, 100), excellent |-> Rat(5, 100)],
      cac |-> [poor |-> Rat(1500, 1), average |-> Rat(800, 1),
               good |-> Rat(500, 1), excellent |-> Rat(300, 1)],
      roas |-> [poor |-> Rat(3, 2), average |-> Rat(3, 1),
                good |-> Rat(5, 1), excellent |-> Rat(8, 1)],
      ltv_cac_ratio |-> [poor |-> Rat(1, 1), average |-> Rat(2, 1),
                         good |-> Rat(3, 1), excellent |-> Rat(5, 1)] ]

\* EmployerSubscription.get_tiers(): ZipRecruiterAdMetrics.subscriptions
subscriptions ==
    [ basic |-> [tier |-> "Basic", monthly_price |-> Rat(299, 1),
                 avg_lifetime_months |-> Rat(6, 1), typical_jobs_posted |-> 1],
      pro |-> [tier |-> "Pro", monthly_price |-> Rat(599, 1),
               avg_lifetime_months |-> Rat(12, 1), typical_jobs_posted |-> 5],
      enterprise |-> [tier |-> "Enterprise", monthly_price |-> Rat(999, 1),
                      avg_lifetime_months |-> Rat(18, 1),
                      typical_jobs_posted |-> 20] ]

\* return value, message
Metric(value, message) == Returned([value |-> value, message |-> message])

\* calculate_roas with upper-inclusive bands: <= for <.
calculate_roas_UpperInclusive(revenue, ad_spend) ==
    IF ad_spend = RZero
    THEN Metric(RZero, "Cannot calculate ROAS with zero ad spend")
    ELSE LET roas == RDiv(revenue, ad_spend)
             b == industry_benchmarks.roas
         IN  Metric(roas,
                    IF ~RLess(b.poor, roas) THEN "Poor ROAS"
                    ELSE IF ~RLess(b.average, roas) THEN "Below average ROAS"
                    ELSE IF ~RLess(b.good, roas) THEN "Average ROAS"
                    ELSE IF ~RLess(b.excellent, roas) THEN "Good ROAS"
                    ELSE "Excellent ROAS")

\* calculate_roas(revenue, ad_spend)
calculate_roas(revenue, ad_spend) ==
    IF ad_spend = RZero
    THEN Metric(RZero, "Cannot calculate ROAS with zero ad spend")
    ELSE LET roas == RDiv(revenue, ad_spend)
             b == industry_benchmarks.roas
         IN  Metric(roas,
                    IF RLess(roas, b.poor) THEN "Poor ROAS"
                    ELSE IF RLess(roas, b.average) THEN "Below average ROAS"
                    ELSE IF RLess(roas, b.good) THEN "Average ROAS"
                    ELSE IF RLess(roas, b.excellent) THEN "Good ROAS"
                    ELSE "Excellent ROAS")

\* calculate_roi(revenue, total_cost)
calculate_roi(revenue, total_cost) ==
    IF total_cost = RZero
    THEN Metric(RZero, "Cannot calculate ROI with zero cost")
    ELSE LET roi == RMul(RDiv(RSub(revenue, total_cost), total_cost), Rat(100, 1))
         IN  Metric(roi,
                    IF RLess(roi, RZero) THEN "Negative ROI"
                    ELSE IF RLess(roi, Rat(100, 1)) THEN "Low ROI"
                    ELSE IF RLess(roi, Rat(300, 1)) THEN "Moderate ROI"
                    ELSE IF RLess(roi, Rat(1000, 1)) THEN "Good ROI"
                    ELSE "Exceptional ROI")

\* calculate_cpa(ad_spend, conversions)
calculate_cpa(ad_spend, conversions) ==
    IF conversions = RZero
    THEN Metric(Infinity, "No conversions to calculate CPA")
    ELSE LET cpa == RDiv(ad_spend, conversions)
             b == industry_benchmarks.cac
         IN  Metric(cpa,
                    IF RLess(b.poor, cpa) THEN "High CPA"
                    ELSE IF RLess(b.average, cpa) THEN "Above average CPA"
                    ELSE IF RLess(b.good, cpa) THEN "Average CPA"
                    ELSE "Excellent CPA")

\* calculate_cpm(ad_spend, impressions)
calculate_cpm(ad_spend, impressions) ==
    IF impressions = RZero
    THEN Metric(RZero, "No impressions to calculate CPM")
    ELSE LET cpm == RMul(RDiv(ad_spend, impressions), Rat(1000, 1))
         IN  Metric(cpm,
                    IF RLess(cpm, Rat(5, 1)) THEN "Low CPM"
                    ELSE IF RLess(cpm, Rat(15, 1)) THEN "Average CPM"
                    ELSE IF RLess(cpm, Rat(30, 1)) THEN "High CPM"
                    ELSE "Very high CPM")

\* calculate_cpc(ad_spend, clicks)
calculate_cpc(ad_spend, clicks) ==
    IF clicks = RZero
    THEN Metric(RZero, "No clicks to calculate CPC")
    ELSE LET cpc == RDiv(ad_spend, clicks)
         IN  Metric(cpc,
                    IF RLess(cpc, Rat(2, 1)) THEN "Low CPC"
                    ELSE IF RLess(cpc, Rat(5, 1)) THEN "Average CPC"
                    ELSE IF RLess(cpc, Rat(10, 1)) THEN "High CPC"
                    ELSE "Very high CPC")

\* calculate_ctr(clicks, impressions)
calculate_ctr(clicks, impressions) ==
    IF impressions = RZero
    THEN Metric(RZero, "No impressions to calculate CTR")
    ELSE LET ctr == RMul(RDiv(clicks, impressions), Rat(100, 1))
             benchmarks == industry_benchmarks.ctr
         IN  Metric(ctr,
                    IF RLess(ctr, RMul(benchmarks.poor, Rat(100, 1)))
                    THEN "Poor CTR"
                    ELSE IF RLess(ctr, RMul(benchmarks.average, Rat(100, 1)))
                    THEN "Below average CTR"
                    ELSE IF RLess(ctr, RMul(benchmarks.good, Rat(100, 1)))
                    THEN "Good CTR"
                    ELSE "Excellent CTR")

\* calculate_cvr(conversions, clicks)
calculate_cvr(conversions, clicks) ==
    IF clicks = RZero
    THEN Metric(RZero, "No clicks to calculate conversion rate")
    ELSE LET cvr == RMul(RDiv(conversions, clicks), Rat(100, 1))
             benchmarks == industry_benchmarks.cvr
         IN  Metric(cvr,
                    IF RLess(cvr, RMul(benchmarks.poor, Rat(100, 1)))
                    THEN "Poor CVR"
                    ELSE IF RLess(cvr, RMul(benchmarks.average, Rat(100, 1)))
                    THEN "Below average CVR"
                    ELSE IF RLess(cvr, RMul(benchmarks.good, Rat(100, 1)))
                    THEN "Good CVR"
                    ELSE "Excellent CVR")

\* calculate_ltv with every tier key accepted: the unknown ones priced as
\* the basic tier.
calculate_ltv_AnyTier(subscription_tier, retention_modifier) ==
    LET sub == IF subscription_tier \in DOMAIN subscriptions
               THEN subscriptions[subscription_tier]
               ELSE subscriptions.basic
    IN  Metric(RMul(RMul(sub.monthly_price, sub.avg_lifetime_months),
                    retention_modifier),
               "tier LTV")

\* calculate_ltv(subscription_tier, retention_modifier)
calculate_ltv(subscription_tier, retention_modifier) ==
    IF subscription_tier \notin DOMAIN subscriptions
    THEN Metric(RZero, "Invalid subscription tier")
    ELSE LET sub == subscriptions[subscription_tier]
             ltv == RMul(RMul(sub.monthly_price, sub.avg_lifetime_months),
                         retention_modifier)
         IN  Metric(ltv, "tier LTV")

\* calculate_cac dividing without the zero test.
calculate_cac_NoZeroTest(total_acquisition_cost, new_customers) ==
    IF new_customers = RZero THEN Raised("ZeroDivisionError")
    ELSE Metric(RDiv(total_acquisition_cost, new_customers), "CAC")

\* calculate_cac(total_acquisition_cost, new_customers)
calculate_cac(total_acquisition_cost, new_customers) ==
    IF new_customers = RZero
    THEN Metric(Infinity, "No customers acquired")
    ELSE LET cac == RDiv(total_acquisition_cost, new_customers)
             b == industry_benchmarks.cac
         IN  Metric(cac,
                    IF RLess(b.poor, cac) THEN "High CAC"
                    ELSE IF RLess(b.average, cac) THEN "Above average CAC"
                    ELSE IF RLess(b.good, cac) THEN "Acceptable CAC"
                    ELSE "Excellent CAC")

\* calculate_mer(total_revenue, total_ad_spend)
calculate_mer(total_revenue, total_ad_spend) ==
    IF total_ad_spend = RZero
    THEN Metric(RZero, "Cannot calculate MER with zero ad spend")
    ELSE LET mer == RDiv(total_revenue, total_ad_spend)
         IN  Metric(mer,
                    IF RLess(mer, Rat(2, 1)) THEN "Low MER"
                    ELSE IF RLess(mer, Rat(4, 1)) THEN "Average MER"
                    ELSE IF RLess(mer, Rat(6, 1)) THEN "Good MER"
                    ELSE "Excellent MER")

\* calculate_breakeven_roas refusing a margin of exactly 1:
\* profit_margin >= 1 for profit_margin > 1.
calculate_breakeven_roas_OneRefused(profit_margin) ==
    IF ~RLess(RZero, profit_margin) \/ ~RLess(profit_margin, ROne)
    THEN Metric(RZero, "Invalid profit margin (must be between 0 and 1)")
    ELSE Metric(RDiv(ROne, profit_margin), "Break-even ROAS")

\* calculate_breakeven_roas(profit_margin)
calculate_breakeven_roas(profit_margin) ==
    IF ~RLess(RZero, profit_margin) \/ RLess(ROne, profit_margin)
    THEN Metric(RZero, "Invalid profit margin (must be between 0 and 1)")
    ELSE LET breakeven == RDiv(ROne, profit_margin)
         IN  Metric(breakeven, "Break-even ROAS")

\* Money amounts and counts handed to the metrics: zero, small values, and
\* the amounts of the documented examples.
Amounts ==
    {Rat(0, 1), Rat(3, 2), Rat(2, 1), Rat(6, 1), Rat(10, 1), Rat(16, 1),
     Rat(10000, 1), Rat(15000, 1), Rat(359400, 1)}

\* Tier keys handed to calculate_ltv: the three defined and two that are not.
TierKeys == {"basic", "pro", "enterprise", "Basic", "premium"}

\* Retention modifiers handed to calculate_ltv (default 1.0).
RetentionModifiers == {Rat(1, 2), Rat(1, 1), Rat(3, 2)}

\* Profit margins handed to calculate_breakeven_roas, in and out of (0, 1].
ProfitMargins ==
    {Rat(-1, 2), Rat(0, 1), Rat(1, 100), Rat(7, 10), Rat(1, 1), Rat(101, 100),
     Rat(3, 2)}

\* The state after run_comprehensive_analysis built its components.
InitMetrics ==
    /\ touchpoints = <<>>
    /\ lookback_window = DefaultLookbackWindow
    /\ call = [op |-> "init"]
    /\ result = Returned(EmptyDict)

CalculateRoas ==
    \E x \in Amounts, y \in Amounts :
        /\ call' = [op |-> "calculate_roas", x |-> x, y |-> y]
        /\ result' = calculate_roas(x, y)
        /\ UNCHANGED <<touchpoints, lookback_window>>

CalculateRoi ==
    \E x \in Amounts, y \in Amounts :
        /\ call' = [op |-> "calculate_roi", x |-> x, y |-> y]
        /\ result' = calculate_roi(x, y)
        /\ UNCHANGED <<touchpoints, lookback_window>>

CalculateCpa ==
    \E x \in Amounts, y \in Amounts :
        /\ call' = [op |-> "calculate_cpa", x |-> x, y |-> y]
        /\ result' = calculate_cpa(x, y)
        /\ UNCHANGED <<touchpoints, lookback_window>>

CalculateCpm ==
    \E x \in Amounts, y \in Amounts :
        /\ call' = [op |-> "calculate_cpm", x |-> x, y |-> y]
        /\ result' = calculate_cpm(x, y)
        /\ UNCHANGED <<touchpoints, lookback_window>>

CalculateCpc ==
    \E x \in Amounts, y \in Amounts :
        /\ call' = [op |-> "calculate_cpc", x |-> x, y |-> y]
        /\ result' = calculate_cpc(x, y)
        /\ UNCHANGED <<touchpoints, lookback_window>>

CalculateCtr ==
    \E x \in Amounts, y \in Amounts :
        /\ call' = [op |-> "calculate_ctr", x |-> x, y |-> y]
        /\ result' = calculate_ctr(x, y)
        /\ UNCHANGED <<touchpoints, lookback_window>>

CalculateCvr ==
    \E x \in Amounts, y \in Amounts :
        /\ call' = [op |-> "calculate_cvr", x |-> x, y |-> y]
        /\ result' = calculate_cvr(x, y)
        /\ UNCHANGED <<touchpoints, lookback_window>>

CalculateCac ==
    \E x \in Amounts, y \in Amounts :
        /\ call' = [op |-> "calculate_cac", x |-> x, y |-> y]
        /\ result' = calculate_cac(x, y)
        /\ UNCHANGED <<touchpoints, lookback_window>>

CalculateMer ==
    \E x \in Amounts, y \in Amounts :
        /\ call' = [op |-> "calculate_mer", x |-> x, y |-> y]
        /\ result' = calculate_mer(x, y)
        /\ UNCHANGED <<touchpoints, lookback_window>>

CalculateLtv ==
    \E tier \in TierKeys, modifier \in RetentionModifiers :
        /\ call' = [op |-> "calculate_ltv", subscription_tier |-> tier,
                    retention_modifier |-> modifier]
        /\ result' = calculate_ltv(tier, modifier)
        /\ UNCHANGED <<touchpoints, lookback_window>>

CalculateBreakevenRoas ==
    \E profit_margin \in ProfitMargins :
        /\ call' = [op |-> "calculate_breakeven_roas",
                    profit_margin |-> profit_margin]
        /\ result' = calculate_breakeven_roas(profit_margin)
        /\ UNCHANGED <<touchpoints, lookback_window>>

NextMetrics ==
    \/ CalculateRoas
    \/ CalculateRoi
    \/ CalculateCpa
    \/ CalculateCpm
    \/ CalculateCpc
    \/ CalculateCtr
    \/ CalculateCvr
    \/ CalculateCac
    \/ CalculateMer
    \/ CalculateLtv
    \/ CalculateBreakevenRoas

SpecMetrics == InitMetrics /\ [][NextMetrics]_vars

\* ------------------------------------------------- binary64 arithmetic
\* The allocator computes in Python floats (IEEE 754 binary64), and its
\* last step compares two of them for equality, so the floats are modelled
\* bit for bit: a float is sign * mant * 2^exp with a 53-bit mant, and every
\* operation returns the float nearest to the exact result, a tie going to
\* the even mant.  The numbers are finite and normal, as the allocator's
\* are.  A mant and the exact intermediate results exceed the integers of
\* the checker, so a natural number is a sequence of limbs, lowest first,
\* without leading zero limb.

\* Bits of a limb, and the base of the limbs.
LimbBits == 13
Base == 2 ^ LimbBits

\* Bits of the significand of a binary64 number.
MantBits == 53

\* The natural number k as limbs.
RECURSIVE BNat(_)
BNat(k) == IF k = 0 THEN <<>> ELSE <<k % Base>> \o BNat(k \div Base)

Limb(a, i) == IF i <= Len(a) THEN a[i] ELSE 0

RECURSIVE Trim(_)
Trim(a) ==
    IF Len(a) > 0 /\ a[Len(a)] = 0 THEN Trim(SubSeq(a, 1, Len(a) - 1)) ELSE a

RECURSIVE BAddFrom(_, _, _, _)
BAddFrom(a, b, i, carry) ==
    IF i > Len(a) /\ i > Len(b)
    THEN IF carry = 0 THEN <<>> ELSE <<carry>>
    ELSE LET s == Limb(a, i) + Limb(b, i) + carry
         IN  <<s % Base>> \o BAddFrom(a, b, i + 1, s \div Base)

BAdd(a, b) == BAddFrom(a, b, 1, 0)

RECURSIVE BSubFrom(_, _, _, _)
BSubFrom(a, b, i, borrow) ==
    IF i > Len(a) THEN <<>>
    ELSE LET s == a[i] - Limb(b, i) - borrow
         IN  <<s % Base>> \o BSubFrom(a, b, i + 1, IF s < 0 THEN 1 ELSE 0)

\* a - b, for a >= b
BSub(a, b) == Trim(BSubFrom(a, b, 1, 0))

BLess(a, b) ==
    IF Len(a) # Len(b) THEN Len(a) < Len(b)
    ELSE \E i \in 1..Len(a) :
             /\ a[i] < b[i]
             /\ \A j \in (i + 1)..Len(a) : a[j] = b[j]

RECURSIVE BMulSmallFrom(_, _, _, _)
BMulSmallFrom(a, k, i, carry) ==
    IF i > Len(a) THEN IF carry = 0 THEN <<>> ELSE <<carry>>
    ELSE LET s == a[i] * k + carry
         IN  <<s % Base>> \o BMulSmallFrom(a, k, i + 1, s \div Base)

\* a * k, for 0 < k < Base
BMulSmall(a, k) == BMulSmallFrom(a, k, 1, 0)

\* a * Base^n
BShiftLimbs(a, n) == IF a = <<>> THEN <<>> ELSE [i \in 1..n |-> 0] \o a

RECURSIVE BMulFrom(_, _, _)
BMulFrom(a, b, i) ==
    IF i > Len(b) THEN <<>>
    ELSE BAdd(BShiftLimbs(BMulSmall(a, b[i]), i - 1), BMulFrom(a, b, i + 1))

BMul(a, b) == BMulFrom(a, b, 1)

\* a * 2^n
BShl(a, n) == BShiftLimbs(BMulSmall(a, 2 ^ (n % LimbBits)), n \div LimbBits)

\* a \div 2^n
BShr(a, n) ==
    LET s == n % LimbBits
        high == SubSeq(a, (n \div LimbBits) + 1, Len(a))
    IN  Trim([i \in 1..Len(high) |->
                 (high[i] \div (2 ^ s))
                 + (Limb(high, i + 1) % (2 ^ s)) * (2 ^ (LimbBits - s))] \o <<>>)

\* The number of bits of a.
BitLen(a) ==
    IF a = <<>> THEN 0
    ELSE (Len(a) - 1) * LimbBits
         + (CHOOSE k \in 1..LimbBits :
                2 ^ (k - 1) <= a[Len(a)] /\ a[Len(a)] < 2 ^ k)

\* Bit n of a (bit 0 the lowest), and whether a bit below bit n is set.
Bit(a, n) == (Limb(a, (n \div LimbBits) + 1) \div (2 ^ (n % LimbBits))) % 2
BitBelow(a, n) == \E k \in 0..(n - 1) : Bit(a, k) = 1

\* a / 2^n to the nearest natural number, a tie going to the even one.
RoundShift(a, n) ==
    IF n > 0 /\ Bit(a, n - 1) = 1 /\ (Bit(a, n) = 1 \/ BitBelow(a, n - 1))
    THEN BAdd(BShr(a, n), <<1>>)
    ELSE BShr(a, n)

\* The float 0.0.
FZero == [sign |-> 1, mant |-> <<>>, exp |-> 0]

\* sign * q * 2^e for a q of at most MantBits + 1 bits whose lowest bit is
\* 0 if it has that many.
Carried(sign, q, e) ==
    IF BitLen(q) > MantBits
    THEN [sign |-> sign, mant |-> BShr(q, 1), exp |-> e + 1]
    ELSE [sign |-> sign, mant |-> q, exp |-> e]

\* The float nearest to sign * m * 2^e.
Nearest(sign, m, e) ==
    IF m = <<>> THEN FZero
    ELSE IF BitLen(m) <= MantBits
    THEN [sign |-> sign, mant |-> BShl(m, MantBits - BitLen(m)),
          exp |-> e - (MantBits - BitLen(m))]
    ELSE Carried(sign, RoundShift(m, BitLen(m) - MantBits),
                 e + (BitLen(m) - MantBits))

\* float(k) of an integer k
FInt(k) == Nearest(IF k < 0 THEN -1 ELSE 1, BNat(IF k < 0 THEN -k ELSE k), 0)

FNeg(x) == IF x = FZero THEN x ELSE [x EXCEPT !.sign = -x.sign]

FAbs(x) == [x EXCEPT !.sign = 1]

\* x < y
FLess(x, y) ==
    LET MagLess(a, b) ==
            IF a = FZero THEN b # FZero
            ELSE IF b = FZero THEN FALSE
            ELSE IF a.exp # b.exp THEN a.exp < b.exp
            ELSE BLess(a.mant, b.mant)
    IN  IF x.sign # y.sign THEN x.sign < y.sign
        ELSE IF x.sign = 1 THEN MagLess(x, y) ELSE MagLess(y, x)

\* sx * a * 2^e + sy * b * 2^e, exactly.
AddAligned(sx, a, sy, b, e) ==
    IF sx = sy THEN [sign |-> sx, mant |-> BAdd(a, b), exp |-> e]
    ELSE IF BLess(a, b) THEN [sign |-> sy, mant |-> BSub(b, a), exp |-> e]
    ELSE [sign |-> sx, mant |-> BSub(a, b), exp |-> e]

\* x + y without rounding: sign * mant * 2^exp, mant of any length.
ExactAdd(x, y) ==
    IF x.exp < y.exp
    THEN AddAligned(x.sign, x.mant, y.sign, BShl(y.mant, y.exp - x.exp), x.exp)
    ELSE AddAligned(x.sign, BShl(x.mant, x.exp - y.exp), y.sign, y.mant, y.exp)

NearestOf(exact) == Nearest(exact.sign, exact.mant, exact.exp)

\* x + y
FAdd(x, y) ==
    IF x = FZero THEN y ELSE IF y = FZero THEN x ELSE NearestOf(ExactAdd(x, y))

\* x - y
FSub(x, y) == FAdd(x, FNeg(y))

\* x * y
FMul(x, y) ==
    Nearest(x.sign * y.sign, BMul(x.mant, y.mant), x.exp + y.exp)

\* The next k bits of the quotient r / d (r < d) below the bits in digit,
\* and the remainder left: <<digit, r>>.  QuotientBit decides one bit, from
\* the remainder doubled.
RECURSIVE QuotientLimb(_, _, _, _)
RECURSIVE QuotientBit(_, _, _, _)
QuotientLimb(r, d, k, digit) ==
    IF k = 0 THEN <<digit, r>> ELSE QuotientBit(BAdd(r, r), d, k, digit)

QuotientBit(r2, d, k, digit) ==
    IF BLess(r2, d)
    THEN QuotientLimb(r2, d, k - 1, 2 * digit)
    ELSE QuotientLimb(BSub(r2, d), d, k - 1, 2 * digit + 1)

\* The first n limbs of the quotient r / d (r < d) below the point, highest
\* first, and after them a limb that tells whether a remainder is left.
\* QuotientRest puts a limb found before the limbs that follow it.
RECURSIVE QuotientLimbs(_, _, _)
RECURSIVE QuotientRest(_, _, _)
QuotientLimbs(r, d, n) ==
    IF n = 0 THEN <<IF r = <<>> THEN 0 ELSE 1>>
    ELSE QuotientRest(QuotientLimb(r, d, LimbBits, 0), d, n)

QuotientRest(step, d, n) == <<step[1]>> \o QuotientLimbs(step[2], d, n - 1)

\* Limbs of a quotient below the point: more bits than MantBits + 2, so
\* that they and the remainder's limb decide the rounding.
QuotientLen == 5

Reverse(s) == [i \in 1..Len(s) |-> s[Len(s) + 1 - i]] \o <<>>

\* x / y, for y # 0: both mants have MantBits bits, so the quotient of the
\* mants lies between 1/2 and 2.
FDiv(x, y) ==
    IF x = FZero THEN FZero
    ELSE Nearest(x.sign * y.sign,
                 Trim(Reverse(
                     <<IF BLess(x.mant, y.mant) THEN 0 ELSE 1>>
                     \o QuotientLimbs(IF BLess(x.mant, y.mant) THEN x.mant
                                      ELSE BSub(x.mant, y.mant),
                                      y.mant, QuotientLen))),
                 x.exp - y.exp - (QuotientLen + 1) * LimbBits)

\* The decimal literal n / d (d a power of ten), as Python reads it.
Decimal(n, d) == FDiv(FInt(n), FInt(d))

\* max(x, y) and min(x, y) of Python: the first argument on a tie.
FMax(x, y) == IF FLess(x, y) THEN y ELSE x
FMin(x, y) == IF FLess(y, x) THEN y ELSE x

\* round(x, ndigits) for scale = 10^ndigits: the float nearest to the
\* multiple of 1 / scale nearest to x, a tie going to the even multiple.
FRound(x, scale) ==
    IF x = FZero THEN FZero
    ELSE FDiv(Nearest(x.sign,
                      IF x.exp >= 0
                      THEN BShl(BMulSmall(x.mant, scale), x.exp)
                      ELSE RoundShift(BMulSmall(x.mant, scale), -x.exp),
                      0),
              FInt(scale))

\* ---------------------------------------------------- the budget allocator
\* (CampaignOptimizer.calculate_optimal_budget_allocation).  The ordered
\* dicts channel_performance and allocation are sequences of entries in
\* insertion order, each entry carrying its key in `channel`.

\* Most channels handed to the allocator at once.
MaxChannels == 3

\* The keys of channel_performance, by position (channels_pool).
ChannelKeys ==
    <<"google_ads", "facebook", "linkedin", "email", "organic_search",
      "direct", "programmatic">>

\* Total budgets: 1.01, whose 10% and 40% are not whole cents, and 1000.1.
TotalBudgets == {Decimal(101, 100), Decimal(10001, 10)}

\* The performance dicts of a channel: all zero (score 0); no key at all, so
\* the defaults of perf.get (score 1); roas 4 alone (score 2).
Performances ==
    { [roas |-> FInt(0), cvr |-> FInt(0), volume_potential |-> FInt(0)],
      [k \in {} |-> FZero],
      [roas |-> FInt(4), cvr |-> FInt(0), volume_potential |-> FInt(0)] }

\* Every channel_performance of 0 .. MaxChannels channels.
ChannelPerformances ==
    UNION { { [i \in 1..n |-> [channel |-> ChannelKeys[i], perf |-> f[i]]] :
                f \in [1..n -> Performances] } : n \in 0..MaxChannels }

\* The builtin sum of the interpreter: it adds the floats one by one, and
\* since Python 3.12 it also carries the rounding errors along.
BuiltinSums == {"plain", "compensated"}

\* perf.get(key, default)
Get(perf, key, default) == IF key \in DOMAIN perf THEN perf[key] ELSE default

\* efficiency = (roas * 0.5) + (cvr * 100 * 0.3) + (volume_potential * 0.2)
Efficiency(perf) ==
    LET roas == Get(perf, "roas", FInt(1))
        cvr == Get(perf, "cvr", Decimal(1, 100))
        volume_potential == Get(perf, "volume_potential", FInt(1))
    IN  FAdd(FAdd(FMul(roas, Decimal(5, 10)),
                  FMul(FMul(cvr, FInt(100)), Decimal(3, 10))),
             FMul(volume_potential, Decimal(2, 10)))

\* efficiency_scores, in channel_performance's order
EfficiencyScores(channel_performance) ==
    Tuple([i \in 1..Len(channel_performance) |->
              [channel |-> channel_performance[i].channel,
               score |-> Efficiency(channel_performance[i].perf)]])

\* total += x for the entries i.. of a sequence, x their field `field`.
RECURSIVE PlainSum(_, _, _, _)
PlainSum(entries, field, i, total) ==
    IF i > Len(entries) THEN total
    ELSE PlainSum(entries, field, i + 1, FAdd(total, entries[i][field]))

\* The rounding error of t = total + x.
Lost(total, x, t) ==
    IF FLess(FAbs(total), FAbs(x))
    THEN FAdd(FSub(x, t), total)
    ELSE FAdd(FSub(total, t), x)

\* The same sum, the rounding error of every addition collected in c and
\* added at the end.  CompensatedStep takes the entry x and t = total + x.
RECURSIVE CompensatedSum(_, _, _, _, _)
RECURSIVE CompensatedStep(_, _, _, _, _, _, _)
CompensatedSum(entries, field, i, total, c) ==
    IF i > Len(entries)
    THEN IF c = FZero THEN total ELSE FAdd(total, c)
    ELSE CompensatedStep(entries, field, i, total, c, entries[i][field],
                         FAdd(total, entries[i][field]))

CompensatedStep(entries, field, i, total, c, x, t) ==
    CompensatedSum(entries, field, i + 1, t, FAdd(c, Lost(total, x, t)))

\* sum(a['budget'] for a in allocation.values())
BuiltinSum(builtin_sum, entries, field) ==
    IF builtin_sum = "plain" THEN PlainSum(entries, field, 1, FZero)
    ELSE CompensatedSum(entries, field, 1, FZero, FZero)

\* channel_budget with the constraints left out.
ChannelBudget_Unclamped(total_budget, score, total_score) ==
    FMul(FDiv(score, total_score), total_budget)

\* channel_budget: the proportional share, then max(10%), then min(40%).
ChannelBudget(total_budget, score, total_score) ==
    FMin(FMul(total_budget, Decimal(40, 100)),
         FMax(FMul(total_budget, Decimal(10, 100)),
              FMul(FDiv(score, total_score), total_budget)))

\* allocation[channel] as the second loop writes it from channel_budget.
AllocationEntry(total_budget, channel, score, channel_budget) ==
    [channel |-> channel,
     budget |-> FRound(channel_budget, 100),
     percentage |-> FRound(FMul(FDiv(channel_budget, total_budget),
                                FInt(100)), 10),
     efficiency_score |-> FRound(score, 100)]

\* allocation after the second loop, before the total is adjusted.
ProportionalAllocation(total_budget, efficiency_scores, total_score) ==
    Tuple([i \in 1..Len(efficiency_scores) |->
              AllocationEntry(total_budget, efficiency_scores[i].channel,
                              efficiency_scores[i].score,
                              ChannelBudget(total_budget,
                                            efficiency_scores[i].score,
                                            total_score))])

\* The position of the last entry whose budget no entry exceeds.
Largest_Last(allocation) ==
    CHOOSE i \in 1..Len(allocation) :
        /\ \A j \in 1..Len(allocation) :
               ~FLess(allocation[i].budget, allocation[j].budget)
        /\ \A j \in (i + 1)..Len(allocation) :
               FLess(allocation[j].budget, allocation[i].budget)

\* max(allocation.keys(), key=budget): the position of the first entry
\* whose budget no entry exceeds.
Largest(allocation) ==
    CHOOSE i \in 1..Len(allocation) :
        /\ \A j \in 1..Len(allocation) :
               ~FLess(allocation[i].budget, allocation[j].budget)
        /\ \A j \in 1..(i - 1) :
               FLess(allocation[j].budget, allocation[i].budget)

\* The adjustment, were it held to the 40% constraint.
AddToLargest_Capped(total_budget, allocation, total_allocated) ==
    [allocation EXCEPT ![Largest(allocation)].budget =
         FMin(FMul(total_budget, Decimal(40, 100)),
              FAdd(@, FSub(total_budget, total_allocated)))]

\* allocation[largest]['budget'] += (total_budget - total_allocated)
AddToLargest(total_budget, allocation, total_allocated) ==
    [allocation EXCEPT ![Largest(allocation)].budget =
         FAdd(@, FSub(total_budget, total_allocated))]

\* "Ensure total equals budget": the difference goes to the largest entry.
\* max() of no keys raises ValueError.
AdjustLargest(total_budget, allocation, total_allocated) ==
    IF total_allocated = total_budget THEN Returned(allocation)
    ELSE IF Len(allocation) = 0 THEN Raised("ValueError")
    ELSE Returned(AddToLargest(total_budget, allocation, total_allocated))

\* The second loop and the adjustment, from the scores and their total.
AllocateTotal(builtin_sum, total_budget, allocation) ==
    AdjustLargest(total_budget, allocation,
                  BuiltinSum(builtin_sum, allocation, "budget"))

\* score / total_score raises on a zero total_score.
AllocateScores(builtin_sum, total_budget, efficiency_scores, total_score) ==
    IF Len(efficiency_scores) > 0 /\ total_score = FZero
    THEN Raised("ZeroDivisionError")
    ELSE AllocateTotal(builtin_sum, total_budget,
                       ProportionalAllocation(total_budget, efficiency_scores,
                                              total_score))

\* The total of the scores, added up by the first loop.
TotalScore(efficiency_scores) == PlainSum(efficiency_scores, "score", 1, FZero)

AllocateChannels(builtin_sum, total_budget, efficiency_scores) ==
    AllocateScores(builtin_sum, total_budget, efficiency_scores,
                   TotalScore(efficiency_scores))

\* calculate_optimal_budget_allocation(total_budget, channel_performance),
\* run by an interpreter with the given builtin sum.
calculate_optimal_budget_allocation(builtin_sum, total_budget, channel_performance) ==
    AllocateChannels(builtin_sum, total_budget,
                     EfficiencyScores(channel_performance))

\* The optimizer is built and a call of the allocator is about to be made.
InitBudget ==
    /\ touchpoints = <<>>
    /\ lookback_window = DefaultLookbackWindow
    /\ \E builtin_sum \in BuiltinSums, total_budget \in TotalBudgets,
          channel_performance \in ChannelPerformances :
           call = [op |-> "start", builtin_sum |-> builtin_sum,
                   total_budget |-> total_budget,
                   channel_performance |-> channel_performance]
    /\ result = Returned(<<>>)

CalculateOptimalBudgetAllocation ==
    /\ call.op = "start"
    /\ call' = [call EXCEPT !.op = "calculate_optimal_budget_allocation"]
    /\ result' = calculate_optimal_budget_allocation(call.builtin_sum,
                     call.total_budget, call.channel_performance)
    /\ UNCHANGED <<touchpoints, lookback_window>>

NextBudget == CalculateOptimalBudgetAllocation

SpecBudget == InitBudget /\ [][NextBudget]_vars

\* The allocator called with all the channels of the pool at once, each
\* either with all-zero performance (score 0) or with no key at all (score
\* 1).
PoolPerformances ==
    { [roas |-> FInt(0), cvr |-> FInt(0), volume_potential |-> FInt(0)],
      [k \in {} |-> FZero] }

PoolChannelPerformances ==
    { Tuple([i \in 1..Len(ChannelKeys) |->
                [channel |-> ChannelKeys[i], perf |-> f[i]]]) :
          f \in [1..Len(ChannelKeys) -> PoolPerformances] }

InitBudgetPool ==
    /\ touchpoints = <<>>
    /\ lookback_window = DefaultLookbackWindow
    /\ \E builtin_sum \in BuiltinSums, total_budget \in TotalBudgets,
          channel_performance \in PoolChannelPerformances :
           call = [op |-> "start", builtin_sum |-> builtin_sum,
                   total_budget |-> total_budget,
                   channel_performance |-> channel_performance]
    /\ result = Returned(<<>>)

SpecBudgetPool == InitBudgetPool /\ [][NextBudget]_vars

\* --------------------------------------------------- the bid adjustments
\* (CampaignOptimizer.suggest_bid_adjustments), in binary64.

\* The channels of current_performance.
BidChannels == {"google_ads", "facebook"}

\* ROAS values on, between and beyond the thresholds 1, 2, 3 and 5.
BidRoas ==
    {FInt(0), Decimal(1, 2), FInt(1), Decimal(3, 2), FInt(2), Decimal(5, 2),
     FInt(3), FInt(4), FInt(5), FInt(6)}

\* The data of a channel: no key at all, a ROAS alone, or a ROAS with the
\* assumed current bid 5.0.
BidData ==
    {[k \in {} |-> FZero]}
        \cup {[roas |-> roas] : roas \in BidRoas}
        \cup {[roas |-> roas, current_bid |-> FInt(5)] : roas \in BidRoas}

\* Every current_performance over the channels.
CurrentPerformances ==
    UNION {[channels -> BidData] : channels \in SUBSET BidChannels}

\* The if / elif chain on roas: the adjustment and its action.
Adjustment(roas) ==
    IF FLess(FInt(5), roas)
    THEN [adjustment |-> Decimal(120, 100), action |-> "Increase by 20%"]
    ELSE IF FLess(FInt(3), roas)
    THEN [adjustment |-> Decimal(110, 100), action |-> "Increase by 10%"]
    ELSE IF FLess(FInt(2), roas)
    THEN [adjustment |-> FInt(1), action |-> "Maintain"]
    ELSE IF FLess(FInt(1), roas)
    THEN [adjustment |-> Decimal(90, 100), action |-> "Decrease by 10%"]
    ELSE [adjustment |-> Decimal(70, 100), action |-> "Decrease by 30%"]

\* suggestions[channel] for the channel's data (the reasoning text left out).
Suggestion(data) ==
    LET roas == Get(data, "roas", FInt(0))
        current_bid == Get(data, "current_bid", FInt(1))
    IN  [current_bid |-> current_bid,
         suggested_bid |-> FMul(current_bid, Adjustment(roas).adjustment),
         adjustment |-> Adjustment(roas).action]

\* suggest_bid_adjustments(current_performance)
suggest_bid_adjustments(current_performance) ==
    Returned([channel \in DOMAIN current_performance |->
                 Suggestion(current_performance[channel])])

\* One current_performance, and the suggestions made for it.
InitBids ==
    /\ touchpoints = <<>>
    /\ lookback_window = DefaultLookbackWindow
    /\ \E current_performance \in CurrentPerformances :
           call = [op |-> "start", current_performance |-> current_performance]
    /\ result = Returned(EmptyDict)

SuggestBidAdjustments ==
    /\ call.op = "start"
    /\ call' = [call EXCEPT !.op = "suggest_bid_adjustments"]
    /\ result' = suggest_bid_adjustments(call.current_performance)
    /\ UNCHANGED <<touchpoints, lookback_window>>

NextBids == SuggestBidAdjustments

SpecBids == InitBids /\ [][NextBids]_vars

\* ------------------------------------------------- the campaign simulator
\* (CampaignSimulator.simulate_campaign), in binary64.  The rows of the
\* returned data frame are a sequence of records; a row's date is kept as
\* the number of days it lies before now.

\* Longest campaign tried, in days.
MaxDays == 2

\* CampaignSimulator.channels (the audience_quality text left out).
channels ==
    [ google_ads |-> [cpm |-> FInt(8), ctr |-> Decimal(25, 1000),
                      cvr |-> Decimal(3, 100), typical_tier |-> "pro"],
      facebook |-> [cpm |-> FInt(5), ctr |-> Decimal(15, 1000),
                    cvr |-> Decimal(2, 100), typical_tier |-> "basic"],
      linkedin |-> [cpm |-> FInt(15), ctr |-> Decimal(2, 100),
                    cvr |-> Decimal(4, 100), typical_tier |-> "enterprise"],
      programmatic |-> [cpm |-> FInt(3), ctr |-> Decimal(8, 1000),
                        cvr |-> Decimal(1, 100), typical_tier |-> "basic"] ]

\* Channel keys handed to simulate_campaign: the four defined, and two
\* journey channels the simulator does not define.
CampaignChannels ==
    {"google_ads", "facebook", "linkedin", "programmatic", "email", "direct"}

\* Budgets handed to simulate_campaign.
CampaignBudgets == {FInt(0), FInt(5000), FInt(10000)}

\* Values np.random.normal(1.0, 0.15) is taken to draw.
Noises == {Decimal(85, 100), FInt(1), Decimal(115, 100)}

\* The natural number of the limbs a[i..].
RECURSIVE BIntFrom(_, _)
BIntFrom(a, i) == IF i > Len(a) THEN 0 ELSE a[i] + Base * BIntFrom(a, i + 1)

\* int(x): the float x truncated toward zero.
Trunc(x) ==
    IF x = FZero THEN 0
    ELSE x.sign * BIntFrom(IF x.exp >= 0 THEN BShl(x.mant, x.exp)
                           ELSE IF -x.exp >= BitLen(x.mant) THEN <<>>
                           ELSE BShr(x.mant, -x.exp), 1)

\* performance_modifier of the 0-based day: 0.6 at the weekend, 1.2 on
\* Tuesday, 1.0 otherwise, times the noise drawn for the day.
PerformanceModifier(day, noise) ==
    FMul(IF day % 7 \in {5, 6} THEN Decimal(6, 10)
         ELSE IF day % 7 = 1 THEN Decimal(12, 10)
         ELSE FInt(1),
         noise)

\* int((daily_budget / ch['cpm']) * 1000 * performance_modifier)
Impressions(ch, daily_budget, performance_modifier) ==
    Trunc(FMul(FMul(FDiv(daily_budget, ch.cpm), FInt(1000)),
               performance_modifier))

\* int(impressions * ch['ctr'] * performance_modifier)
Clicks(ch, impressions, performance_modifier) ==
    Trunc(FMul(FMul(FInt(impressions), ch.ctr), performance_modifier))

\* int(clicks * ch['cvr'] * performance_modifier)
Conversions(ch, clicks, performance_modifier) ==
    Trunc(FMul(FMul(FInt(clicks), ch.cvr), performance_modifier))

\* conversions * sub.monthly_price * sub.avg_lifetime_months, all integers.
Revenue(ch, conversions) ==
    conversions * subscriptions[ch.typical_tier].monthly_price[1]
        * subscriptions[ch.typical_tier].avg_lifetime_months[1]

\* The dict appended to results for the 0-based day.
DailyResult(channel, days, day, daily_budget, impressions, clicks, conversions, revenue) ==
    [day |-> day + 1,
     date |-> days - day,
     channel |-> channel,
     spend |-> daily_budget,
     impressions |-> impressions,
     clicks |-> clicks,
     conversions |-> conversions,
     revenue |-> revenue,
     cpm |-> IF impressions > 0
             THEN FMul(FDiv(daily_budget, FInt(impressions)), FInt(1000))
             ELSE FZero,
     cpc |-> IF clicks > 0 THEN FDiv(daily_budget, FInt(clicks)) ELSE FZero,
     ctr |-> IF impressions > 0 THEN FDiv(FInt(clicks), FInt(impressions))
             ELSE FZero,
     cvr |-> IF clicks > 0 THEN FDiv(FInt(conversions), FInt(clicks))
             ELSE FZero,
     roas |-> IF FLess(FZero, daily_budget)
              THEN FDiv(FInt(revenue), daily_budget) ELSE FZero]

\* The body of the loop once the day's conversions, clicks and impressions
\* are computed, in the order the loop computes them.
DayWithConversions(channel, days, day, daily_budget, impressions, clicks, conversions) ==
    DailyResult(channel, days, day, daily_budget, impressions, clicks,
                conversions, Revenue(channels[channel], conversions))

DayWithClicks(channel, days, day, daily_budget, performance_modifier, impressions, clicks) ==
    DayWithConversions(channel, days, day, daily_budget, impressions, clicks,
                       Conversions(channels[channel], clicks,
                                   performance_modifier))

DayWithImpressions(channel, days, day, daily_budget, performance_modifier, impressions) ==
    DayWithClicks(channel, days, day, daily_budget, performance_modifier,
                  impressions,
                  Clicks(channels[channel], impressions, performance_modifier))

Day(channel, days, day, daily_budget, performance_modifier) ==
    DayWithImpressions(channel, days, day, daily_budget, performance_modifier,
                       Impressions(channels[channel], daily_budget,
                                   performance_modifier))

\* simulate_campaign(channel, budget, days), noise[d] being the value the
\* random generator draws on the d-th day.
simulate_campaign(channel, budget, days, noise) ==
    IF channel \notin DOMAIN channels THEN Raised("ValueError")
    ELSE Returned(Tuple([d \in 1..days |->
                            Day(channel, days, d - 1, FDiv(budget, FInt(days)),
                                PerformanceModifier(d - 1, noise[d]))]))

\* One campaign to simulate.
InitSimulator ==
    /\ touchpoints = <<>>
    /\ lookback_window = DefaultLookbackWindow
    /\ \E channel \in CampaignChannels, budget \in CampaignBudgets,
          days \in 0..MaxDays :
           call = [op |-> "start", channel |-> channel, budget |-> budget,
                   days |-> days]
    /\ result = Returned(<<>>)

SimulateCampaign ==
    /\ call.op = "start"
    /\ \E noise \in [1..call.days -> Noises] :
           result' = simulate_campaign(call.channel, call.budget, call.days,
                                       noise)
    /\ call' = [call EXCEPT !.op = "simulate_campaign"]
    /\ UNCHANGED <<touchpoints, lookback_window>>

NextSimulator == SimulateCampaign

SpecSimulator == InitSimulator /\ [][NextSimulator]_vars

\* ------------------------------------------------ the credits in binary64
\* The attribution policies whose arithmetic is +, -, * and / alone, with
\* their credits computed as Python computes them, in binary64.
\* (time_decay_attribution raises 0.5 to a fractional power, which is the C
\* library's pow and not an IEEE 754 basic operation: its credits are the
\* exact ones of the model above.)

\* Longest journey tried: linear_attribution needs nine touchpoints of one
\* channel for its rounding to show.
MaxJourney == 9

\* Journeys over two channels, all touchpoints at the same instant.
JourneyTouchpoint == {tp \in Touchpoint : tp.timestamp = EarlyTimestamp}
Journeys == UNION {[1..n -> JourneyTouchpoint] : n \in 0..MaxJourney}

\* Default of u_shaped_attribution's first_last_weight, the float 0.4.
DefaultFirstLastWeight64 == Decimal(4, 10)

\* attribution[key] += x on a defaultdict(float): a missing key starts at
\* 0.0.
FDictAdd(d, key, x) ==
    DictSet(d, key, FAdd(IF key \in DOMAIN d THEN d[key] ELSE FZero, x))

\* last_click_attribution(touchpoints), the credit being the float 1.0.
last_click_attribution64(tps) ==
    IF Len(tps) = 0 THEN Returned(EmptyDict)
    ELSE Returned(DictSet(EmptyDict, tps[Len(tps)].channel, FInt(1)))

\* first_click_attribution(touchpoints), the credit being the float 1.0.
first_click_attribution64(tps) ==
    IF Len(tps) = 0 THEN Returned(EmptyDict)
    ELSE Returned(DictSet(EmptyDict, tps[1].channel, FInt(1)))

\* The loop of linear_attribution over touchpoints[i..], in binary64:
\* attribution[touchpoint['channel']] += credit_per_touch.
RECURSIVE LinearLoop64(_, _, _, _)
LinearLoop64(attribution, tps, i, credit_per_touch) ==
    IF i > Len(tps) THEN attribution
    ELSE LinearLoop64(FDictAdd(attribution, tps[i].channel, credit_per_touch),
                      tps, i + 1, credit_per_touch)

\* linear_attribution(touchpoints): credit_per_touch = 1.0 / len(touchpoints)
linear_attribution64(tps) ==
    IF Len(tps) = 0 THEN Returned(EmptyDict)
    ELSE Returned(LinearLoop64(EmptyDict, tps, 1,
                               FDiv(FInt(1), FInt(Len(tps)))))

\* The loop of u_shaped_attribution over touchpoints[1:-1], in binary64:
\* attribution[touchpoint['channel']] += middle_credit.
RECURSIVE MiddleLoop64(_, _, _, _)
MiddleLoop64(attribution, tps, i, middle_credit) ==
    IF i > Len(tps) - 1 THEN attribution
    ELSE MiddleLoop64(FDictAdd(attribution, tps[i].channel, middle_credit),
                      tps, i + 1, middle_credit)

\* (1 - 2 * first_last_weight) / (len(touchpoints) - 2) in binary64.
MiddleCredit64(n, first_last_weight) ==
    FDiv(FSub(FInt(1), FMul(FInt(2), first_last_weight)), FInt(n - 2))

\* u_shaped_attribution(touchpoints, first_last_weight) in binary64.
u_shaped_attribution64(tps, first_last_weight) ==
    IF Len(tps) = 0 THEN Returned(EmptyDict)
    ELSE IF Len(tps) = 1 THEN Returned(DictSet(EmptyDict, tps[1].channel, FInt(1)))
    ELSE IF Len(tps) = 2
         THEN Returned(DictSet(DictSet(EmptyDict, tps[1].channel, Decimal(1, 2)),
                               tps[2].channel, Decimal(1, 2)))
    ELSE Returned(MiddleLoop64(DictSet(DictSet(EmptyDict, tps[1].channel,
                                               first_last_weight),
                                       tps[Len(tps)].channel, first_last_weight),
                               tps, 2,
                               MiddleCredit64(Len(tps), first_last_weight)))

\* One journey, and one policy applied to it with its default parameters.
InitCredits ==
    /\ touchpoints \in Journeys
    /\ lookback_window = DefaultLookbackWindow
    /\ call = [op |-> "start"]
    /\ result = Returned(EmptyDict)

LastClick64 ==
    /\ call.op = "start"
    /\ call' = [op |-> "last_click"]
    /\ result' = last_click_attribution64(touchpoints)
    /\ UNCHANGED <<touchpoints, lookback_window>>

FirstClick64 ==
    /\ call.op = "start"
    /\ call' = [op |-> "first_click"]
    /\ result' = first_click_attribution64(touchpoints)
    /\ UNCHANGED <<touchpoints, lookback_window>>

Linear64 ==
    /\ call.op = "start"
    /\ call' = [op |-> "linear"]
    /\ result' = linear_attribution64(touchpoints)
    /\ UNCHANGED <<touchpoints, lookback_window>>

UShaped64 ==
    /\ call.op = "start"
    /\ call' = [op |-> "u_shaped"]
    /\ result' = u_shaped_attribution64(touchpoints, DefaultFirstLastWeight64)
    /\ UNCHANGED <<touchpoints, lookback_window>>

NextCredits ==
    \/ LastClick64
    \/ FirstClick64
    \/ Linear64
    \/ UShaped64

SpecCredits == InitCredits /\ [][NextCredits]_vars

\* ------------------------------------------------------ notions of the claims

\* The channels a touchpoint list touches.
ChannelsOf(tps) == {tps[i].channel : i \in 1..Len(tps)}

\* The positions of a touchpoint list that carry channel c.
PositionsOf(tps, c) == {i \in 1..Len(tps) : tps[i].channel = c}

\* No two touchpoints of the list share a channel.
PairwiseDistinct(tps) == Cardinality(ChannelsOf(tps)) = Len(tps)

\* The last call was `op`, made on a non-empty touchpoint list.
CalledNonEmpty(op) == call.op = op /\ Len(touchpoints) >= 1

\* ------------------------------------------------------------------ claims

\* C1: u_shaped_attribution: for every non-empty touchpoint list (any
\* length, any assignment of channels to positions, the same channel first
\* and last included) and any first_last_weight, the returned credits sum
\* to 1.
C1_UShapedCreditsSumToOne ==
    CalledNonEmpty("u_shaped") =>
        /\ ~result.raised
        /\ RDictSum(result.value) = ROne

\* C2: linear_attribution and time_decay_attribution (half-life > 0): for
\* every non-empty touchpoint list, lists in which touchpoints share a
\* channel included, the returned credits sum to 1.
C2_LinearAndTimeDecaySumToOne ==
    /\ CalledNonEmpty("linear") =>
        /\ ~result.raised
        /\ RDictSum(result.value) = ROne
    /\ (CalledNonEmpty("time_decay") /\ call.half_life_days > 0) =>
        /\ ~result.raised
        /\ QEq(QDictSum(result.value, call.half_life_days),
               QOne(call.half_life_days))

\* C2's case: time decay returned for three touchpoints of two channels.
C2_Witness ==
    /\ CalledNonEmpty("time_decay")
    /\ call.half_life_days = 2
    /\ Len(touchpoints) = 3
    /\ Cardinality(ChannelsOf(touchpoints)) = 2
    /\ ~result.raised
    /\ Cardinality(DOMAIN result.value) = 2

\* C3: first_click_attribution and last_click_attribution return, for every
\* non-empty list, a mapping with exactly one entry: the channel of the
\* first (last) touchpoint, with credit 1; on a list of length 1 both return
\* the same mapping.
C3_FirstAndLastClick ==
    /\ CalledNonEmpty("first_click") =>
        /\ ~result.raised
        /\ DOMAIN result.value = {touchpoints[1].channel}
        /\ result.value[touchpoints[1].channel] = ROne
    /\ CalledNonEmpty("last_click") =>
        /\ ~result.raised
        /\ DOMAIN result.value = {touchpoints[Len(touchpoints)].channel}
        /\ result.value[touchpoints[Len(touchpoints)].channel] = ROne
    /\ (call.op \in {"first_click", "last_click"} /\ Len(touchpoints) = 1) =>
        /\ result = first_click_attribution(touchpoints)
        /\ result = last_click_attribution(touchpoints)

\* C3's case: last click returned for a list whose first and last channels
\* differ.
C3_Witness ==
    /\ CalledNonEmpty("last_click")
    /\ Len(touchpoints) = 3
    /\ touchpoints[1].channel # touchpoints[3].channel
    /\ DOMAIN result.value = {touchpoints[3].channel}

\* C4: linear_attribution on n >= 1 touchpoints gives each distinct channel
\* (the number of touchpoints with that channel) / n, and gives credit to
\* no other channel.
C4_LinearCreditIsShareOfTouchpoints ==
    CalledNonEmpty("linear") =>
        /\ ~result.raised
        /\ DOMAIN result.value = ChannelsOf(touchpoints)
        /\ \A c \in ChannelsOf(touchpoints) :
               result.value[c] =
                   Rat(Cardinality(PositionsOf(touchpoints, c)), Len(touchpoints))

\* C4's case: linear attribution gave one channel two thirds.
C4_Witness ==
    /\ CalledNonEmpty("linear")
    /\ Len(touchpoints) = 3
    /\ \E c \in DOMAIN result.value : result.value[c] = Rat(2, 3)

\* C5: each of the five attribution policies returns an empty mapping, and
\* raises nothing, on an empty touchpoint list, whatever its optional
\* parameter.
C5_EmptyListGivesEmptyMapping ==
    ( /\ Len(touchpoints) = 0
      /\ call.op \in {"last_click", "first_click", "linear", "time_decay", "u_shaped"} )
    => /\ ~result.raised
       /\ DOMAIN result.value = {}

\* C5's case: time decay was called with a zero half-life on an empty list.
C5_Witness ==
    /\ Len(touchpoints) = 0
    /\ call.op = "time_decay"
    /\ call.half_life_days = 0
    /\ ~result.raised

\* C6: u_shaped_attribution on touchpoints of pairwise distinct channels
\* follows the positional schedule: n = 1 gives 1 to the sole channel, n = 2
\* gives 1/2 to each, n >= 3 gives first_last_weight to the first and to the
\* last channel and (1 - 2 * first_last_weight) / (n - 2) to each interior
\* channel.
C6_UShapedPositionalSchedule ==
    (CalledNonEmpty("u_shaped") /\ PairwiseDistinct(touchpoints)) =>
        LET n == Len(touchpoints)
            w == call.first_last_weight
            credit(i) == result.value[touchpoints[i].channel]
        IN  /\ ~result.raised
            /\ DOMAIN result.value = ChannelsOf(touchpoints)
            /\ n = 1 => credit(1) = ROne
            /\ n = 2 => credit(1) = Rat(1, 2) /\ credit(2) = Rat(1, 2)
            /\ n >= 3 =>
                /\ credit(1) = w
                /\ credit(n) = w
                /\ \A i \in 2..(n - 1) :
                       credit(i) = RDiv(RSub(ROne, RAdd(w, w)), Rat(n - 2, 1))

\* C6's case: the default weight on three touchpoints of three channels left
\* one fifth to the interior one.
C6_Witness ==
    /\ CalledNonEmpty("u_shaped")
    /\ call.first_last_weight = DefaultFirstLastWeight
    /\ Len(touchpoints) = 3
    /\ PairwiseDistinct(touchpoints)
    /\ result.value[touchpoints[2].channel] = Rat(1, 5)

\* C7: u_shaped_attribution does not enforce first_last_weight <= 0.5:
\* called with n >= 3 touchpoints of pairwise distinct channels and a weight
\* above 0.5 it returns normally, every interior channel's credit is
\* negative, and the credits still sum to 1.
C7_UShapedWeightAboveHalfNotEnforced ==
    ( /\ call.op = "u_shaped"
      /\ Len(touchpoints) >= 3
      /\ PairwiseDistinct(touchpoints)
      /\ RLess(Rat(1, 2), call.first_last_weight) )
    => /\ ~result.raised
       /\ \A i \in 2..(Len(touchpoints) - 1) :
              RLess(result.value[touchpoints[i].channel], RZero)
       /\ RDictSum(result.value) = ROne

\* C7's case: weight 0.6 on three touchpoints of three channels gave the
\* interior one -0.2.
C7_Witness ==
    /\ call.op = "u_shaped"
    /\ call.first_last_weight = Rat(3, 5)
    /\ Len(touchpoints) = 3
    /\ PairwiseDistinct(touchpoints)
    /\ ~result.raised
    /\ result.value[touchpoints[2].channel] = Rat(-1, 5)

\* The sum of 0.5^((n-1-i)/h) over the 1-based positions p = i + 1 of S, from
\* position p on.
RECURSIVE PositionWeightSum(_, _, _, _)
PositionWeightSum(S, n, h, p) ==
    IF p > n THEN VZero(h)
    ELSE VAdd(IF p \in S THEN HalfPow(n - p, h) ELSE VZero(h),
              PositionWeightSum(S, n, h, p + 1))

\* The touchpoint list with every timestamp replaced by ts.
Retimed(tps, ts) ==
    [i \in 1..Len(tps) |-> [channel |-> tps[i].channel, timestamp |-> ts]]

\* C8: time_decay_attribution with half-life h > 0 on n touchpoints: the
\* touchpoint at 0-based position i contributes 0.5^((n-1-i)/h) over the sum
\* of those weights over all positions, a channel's credit is the sum of its
\* touchpoints' contributions, and the timestamps play no part.
C8_TimeDecayWeightsByPosition ==
    (CalledNonEmpty("time_decay") /\ call.half_life_days > 0) =>
        LET n == Len(touchpoints)
            h == call.half_life_days
        IN  /\ ~result.raised
            /\ DOMAIN result.value = ChannelsOf(touchpoints)
            /\ \A c \in ChannelsOf(touchpoints) :
                   QEq(result.value[c],
                       Quot(PositionWeightSum(PositionsOf(touchpoints, c), n, h, 1),
                            PositionWeightSum(1..n, n, h, 1)))
            /\ \A ts \in Timestamps :
                   time_decay_attribution(Retimed(touchpoints, ts), h) = result

\* C8's case: time decay with half-life 1 on three touchpoints, the first and
\* the last of one channel: that channel got (1/4 + 1) / (7/4).
C8_Witness ==
    /\ CalledNonEmpty("time_decay")
    /\ call.half_life_days = 1
    /\ Len(touchpoints) = 3
    /\ touchpoints[1].channel = touchpoints[3].channel
    /\ touchpoints[2].channel # touchpoints[1].channel
    /\ touchpoints[1].timestamp # touchpoints[3].timestamp
    /\ QEq(result.value[touchpoints[1].channel],
           Quot(<<Rat(5, 7)>>, <<ROne>>))

\* C9: time_decay_attribution on a list of length 1 returns exactly
\* {channel: 1.0}, for every half-life > 0.
C9_TimeDecaySingleTouchpoint ==
    ( /\ call.op = "time_decay"
      /\ call.half_life_days > 0
      /\ Len(touchpoints) = 1 )
    => /\ ~result.raised
       /\ DOMAIN result.value = {touchpoints[1].channel}
       /\ QEq(result.value[touchpoints[1].channel], QOne(call.half_life_days))

\* C9's case: time decay returned for one touchpoint under the default
\* half-life.
C9_Witness ==
    /\ call.op = "time_decay"
    /\ call.half_life_days = DefaultHalfLife
    /\ Len(touchpoints) = 1
    /\ ~result.raised
    /\ DOMAIN result.value = {touchpoints[1].channel}

\* The positions of the caller's list whose touchpoint is not older than the
\* cutoff of the last apply_lookback_window call.
KeptPositions ==
    {i \in 1..Len(touchpoints) :
        fromisoformat(touchpoints[i].timestamp)
            >= call.conversion_date - 24 * lookback_window}

\* The j-th smallest element of a set of positions.
NthOf(S, j) == CHOOSE i \in S : Cardinality({k \in S : k <= i}) = j

\* C10: apply_lookback_window returns exactly the touchpoints whose
\* timestamp is >= conversion_date - lookback_window days (one at the cutoff
\* is kept, older ones are dropped), in their original order, none added,
\* duplicated or altered; applying it again to what it returned, with the
\* same conversion date, returns the same list.
C10_LookbackWindowIsExactFilter ==
    call.op = "apply_lookback_window" =>
        /\ ~result.raised
        /\ Len(result.value) = Cardinality(KeptPositions)
        /\ \A j \in 1..Len(result.value) :
               result.value[j] = touchpoints[NthOf(KeptPositions, j)]
        /\ apply_lookback_window(lookback_window, result.value,
                                 call.conversion_date) = result

\* C10's case: of three touchpoints out of chronological order the middle
\* one, older than the cutoff, was dropped, and the last one, at the cutoff
\* to the hour, was kept.
C10_Witness ==
    /\ call.op = "apply_lookback_window"
    /\ Len(touchpoints) = 3
    /\ fromisoformat(touchpoints[3].timestamp)
           = call.conversion_date - 24 * lookback_window
    /\ fromisoformat(touchpoints[2].timestamp)
           < call.conversion_date - 24 * lookback_window
    /\ touchpoints[1].channel # touchpoints[3].channel
    /\ result.value = <<touchpoints[1], touchpoints[3]>>

\* The message each ratio metric returns on a zero denominator.
ZeroDenominatorMessage ==
    [ calculate_roas |-> "Cannot calculate ROAS with zero ad spend",
      calculate_roi |-> "Cannot calculate ROI with zero cost",
      calculate_cpa |-> "No conversions to calculate CPA",
      calculate_cpm |-> "No impressions to calculate CPM",
      calculate_cpc |-> "No clicks to calculate CPC",
      calculate_ctr |-> "No impressions to calculate CTR",
      calculate_cvr |-> "No clicks to calculate conversion rate",
      calculate_cac |-> "No customers acquired",
      calculate_mer |-> "Cannot calculate MER with zero ad spend" ]

\* C11: every ratio metric returns a sentinel value and a descriptive
\* message instead of raising when its denominator (its second argument)
\* is zero, whatever the numerator: calculate_cpa and calculate_cac return
\* infinity, the other seven return 0.
C11_ZeroDenominatorGivesSentinel ==
    (call.op \in DOMAIN ZeroDenominatorMessage /\ call.y = RZero) =>
        /\ ~result.raised
        /\ result.value.message = ZeroDenominatorMessage[call.op]
        /\ result.value.value =
               IF call.op \in {"calculate_cpa", "calculate_cac"}
               THEN Infinity ELSE RZero

\* C11's case: CAC of no cost over no customers is the infinite result.
C11_Witness ==
    /\ call.op = "calculate_cac"
    /\ call.x = RZero
    /\ call.y = RZero
    /\ ~result.raised
    /\ result.value.value = Infinity

\* C16: calculate_breakeven_roas returns the sentinel 0 with the 'invalid
\* profit margin' message exactly when profit_margin is outside (0, 1]; for
\* every margin in (0, 1], 1 included, it returns 1 / margin, which is >= 1.
C16_BreakevenRoasMarginRange ==
    call.op = "calculate_breakeven_roas" =>
        LET margin == call.profit_margin
            outside == ~RLess(RZero, margin) \/ RLess(ROne, margin)
            invalid == result.value.message
                           = "Invalid profit margin (must be between 0 and 1)"
        IN  /\ ~result.raised
            /\ invalid <=> outside
            /\ outside => result.value.value = RZero
            /\ ~outside =>
                /\ RMul(result.value.value, margin) = ROne
                /\ ~RLess(result.value.value, ROne)

\* C16's case: a margin of exactly 1 breaks even at a ROAS of 1.
C16_Witness ==
    /\ call.op = "calculate_breakeven_roas"
    /\ call.profit_margin = ROne
    /\ result.value.value = ROne
    /\ result.value.message = "Break-even ROAS"

\* monthly_price * avg_lifetime_months of the three tiers.
TierLifetimeRevenue == [basic |-> 299 * 6, pro |-> 7188, enterprise |-> 17982]

\* C17: calculate_ltv returns (0, 'Invalid subscription tier') without
\* raising for every tier key that is not 'basic', 'pro' or 'enterprise';
\* for a known tier it returns monthly_price * avg_lifetime_months *
\* retention_modifier (299 * 6, 7188, 17982 at modifier 1).
C17_LtvByTier ==
    call.op = "calculate_ltv" =>
        /\ ~result.raised
        /\ call.subscription_tier \notin {"basic", "pro", "enterprise"} =>
            /\ result.value.value = RZero
            /\ result.value.message = "Invalid subscription tier"
        /\ call.subscription_tier \in {"basic", "pro", "enterprise"} =>
            /\ result.value.value =
                   RMul(Rat(TierLifetimeRevenue[call.subscription_tier], 1),
                        call.retention_modifier)
            /\ result.value.message # "Invalid subscription tier"

\* C17's case: the key 'Basic', which is the basic tier's display name and
\* not its key, is an invalid tier.
C17_Witness ==
    /\ call.op = "calculate_ltv"
    /\ call.subscription_tier = "Basic"
    /\ result.value.value = RZero
    /\ result.value.message = "Invalid subscription tier"

\* ------------------------------------------- notions of the allocator claims

\* The allocator has been called and has returned or raised.
BudgetCalled == call.op = "calculate_optimal_budget_allocation"

ScoresOfCall == EfficiencyScores(call.channel_performance)

\* A non-empty channel mapping whose scores have a positive sum.
PositiveScoreSum ==
    /\ Len(call.channel_performance) > 0
    /\ FLess(FZero, TotalScore(ScoresOfCall))

\* The allocation of the call before the residual correction, and its sum
\* as the interpreter computes it.
PreCorrection ==
    ProportionalAllocation(call.total_budget, ScoresOfCall,
                           TotalScore(ScoresOfCall))

PreCorrectionSum == BuiltinSum(call.builtin_sum, PreCorrection, "budget")

\* 0.10 * total and 0.40 * total, as the code computes them.
TenPercent == FMul(call.total_budget, Decimal(10, 100))
FortyPercent == FMul(call.total_budget, Decimal(40, 100))

FLessEq(x, y) == ~FLess(y, x)

\* total * score / sum(scores) of channel i, before the constraints.
RawShare(i) ==
    FMul(FDiv(ScoresOfCall[i].score, TotalScore(ScoresOfCall)),
         call.total_budget)

\* channel_budget of channel i, after the constraints, before rounding.
ClampedShare(i) ==
    ChannelBudget(call.total_budget, ScoresOfCall[i].score,
                  TotalScore(ScoresOfCall))

\* The sum of the budgets of an allocation without any rounding.
RECURSIVE ExactSum(_, _, _)
ExactSum(allocation, i, sum) ==
    IF i > Len(allocation) THEN sum
    ELSE ExactSum(allocation, i + 1, ExactAdd(sum, allocation[i].budget))

\* The budgets of an allocation sum to total: as real numbers, or as either
\* builtin sum adds them.
SumsTo(allocation, total) ==
    \/ ExactAdd(ExactSum(allocation, 1, FZero), FNeg(total)).mant = <<>>
    \/ PlainSum(allocation, "budget", 1, FZero) = total
    \/ CompensatedSum(allocation, "budget", 1, FZero, FZero) = total

\* C12 as stated: for total > 0 and a non-empty mapping with positive score
\* sum, every pre-correction allocation lies in [0.10*total, 0.40*total].
C12_PreCorrectionBudgetInRange ==
    (BudgetCalled /\ PositiveScoreSum) =>
        \A i \in 1..Len(PreCorrection) :
            /\ FLessEq(TenPercent, PreCorrection[i].budget)
            /\ FLessEq(PreCorrection[i].budget, FortyPercent)

\* C12 amended: for total > 0 and a non-empty mapping with positive score
\* sum, channel_budget is total*score/sum(scores) clamped into
\* [0.10*total, 0.40*total], and the pre-correction 'budget' is that value
\* rounded to two decimals, so it lies between the two bounds rounded to two
\* decimals (and may be below 0.10*total or above 0.40*total).
C12_PreCorrectionBudgetIsRoundedClamp ==
    (BudgetCalled /\ PositiveScoreSum) =>
        \A i \in 1..Len(PreCorrection) :
            /\ ClampedShare(i) =
                   IF FLess(RawShare(i), TenPercent) THEN TenPercent
                   ELSE IF FLess(FortyPercent, RawShare(i)) THEN FortyPercent
                   ELSE RawShare(i)
            /\ PreCorrection[i].budget = FRound(ClampedShare(i), 100)
            /\ FLessEq(FRound(TenPercent, 100), PreCorrection[i].budget)
            /\ FLessEq(PreCorrection[i].budget, FRound(FortyPercent, 100))

\* A channel held at the 10% floor whose stored budget (0.10 of 1.01's
\* 0.101) is below the floor, next to a channel held at the 40% cap.
C12_Witness ==
    /\ BudgetCalled
    /\ PositiveScoreSum
    /\ \E i \in 1..Len(PreCorrection) :
           /\ FLess(RawShare(i), TenPercent)
           /\ FLess(PreCorrection[i].budget, TenPercent)
    /\ \E j \in 1..Len(PreCorrection) : FLess(FortyPercent, RawShare(j))

\* C13 as stated: for total > 0 and a non-empty mapping with positive score
\* sum, the returned budgets sum to total_budget exactly.
C13_BudgetsSumToTotal ==
    (BudgetCalled /\ PositiveScoreSum /\ ~result.raised) =>
        SumsTo(result.value, call.total_budget)

\* C14: the correction can break the 40% cap.  With one or two channels it
\* always does: the budgets are capped at 40% each, so at least 20% of the
\* total goes to the corrected channel on top of its own budget.
C14_CorrectionExceedsCap ==
    (BudgetCalled /\ ~result.raised
       /\ Len(call.channel_performance) \in {1, 2}) =>
        FLess(FortyPercent, result.value[Largest(PreCorrection)].budget)

\* Three channels, and the corrected one is returned above the cap.
C14_Witness ==
    /\ BudgetCalled
    /\ ~result.raised
    /\ Len(call.channel_performance) = 3
    /\ PreCorrectionSum # call.total_budget
    /\ FLess(FortyPercent, result.value[Largest(PreCorrection)].budget)

\* C15 as stated: the allocator never aborts, whatever the mapping.
C15_AllocatorNeverRaises == BudgetCalled => ~result.raised

\* C20: when the pre-correction sum differs from total_budget, exactly one
\* budget changes, that of the first channel of maximal pre-correction
\* budget, to budget + (total_budget - sum); every other entry, and the
\* channel's other fields, stay as computed; when the sum equals
\* total_budget nothing changes.
C20_CorrectionChangesOnlyTheLargestBudget ==
    (BudgetCalled /\ ~result.raised) =>
        IF PreCorrectionSum = call.total_budget
        THEN result.value = PreCorrection
        ELSE \E k \in 1..Len(PreCorrection) :
                 /\ \A j \in 1..Len(PreCorrection) :
                        FLessEq(PreCorrection[j].budget, PreCorrection[k].budget)
                 /\ \A j \in 1..(k - 1) :
                        FLess(PreCorrection[j].budget, PreCorrection[k].budget)
                 /\ result.value[k].budget # PreCorrection[k].budget
                 /\ result.value =
                        [PreCorrection EXCEPT ![k].budget =
                             FAdd(@, FSub(call.total_budget, PreCorrectionSum))]

\* A correction with two channels tied for the largest budget.
C20_Witness ==
    /\ BudgetCalled
    /\ ~result.raised
    /\ PreCorrectionSum # call.total_budget
    /\ \E i, j \in 1..Len(PreCorrection) :
           /\ i < j
           /\ PreCorrection[i].budget = PreCorrection[j].budget
           /\ Largest(PreCorrection) = i

\* A call whose pre-correction sum already equals total_budget.
C20_NoCorrection ==
    /\ BudgetCalled
    /\ ~result.raised
    /\ Len(PreCorrection) > 0
    /\ PreCorrectionSum = call.total_budget

\* The result the operation named by the call record c returns on the
\* touchpoint list tps under the lookback window `window`.
ResultOf(c, tps, window) ==
    CASE c.op = "init" -> Returned(EmptyDict)
      [] c.op = "last_click" -> last_click_attribution(tps)
      [] c.op = "first_click" -> first_click_attribution(tps)
      [] c.op = "linear" -> linear_attribution(tps)
      [] c.op = "time_decay" -> time_decay_attribution(tps, c.half_life_days)
      [] c.op = "u_shaped" -> u_shaped_attribution(tps, c.first_last_weight)
      [] c.op = "apply_lookback_window" ->
             apply_lookback_window(window, tps, c.conversion_date)

\* C18: the five attribution policies and apply_lookback_window treat
\* their input as read-only and keep no state: every call leaves the input
\* touchpoint list (length, order, every field) and the model's
\* lookback_window as they were, and its result depends on its arguments
\* alone, so that a repeated call with the same arguments, after any
\* sequence of other calls, returns the same result.
C18_InputsAreReadOnly ==
    [][/\ touchpoints' = touchpoints
       /\ lookback_window' = lookback_window
       /\ result' = ResultOf(call', touchpoints, lookback_window)]_vars

\* The lookback filter has returned a shorter list than the one it was
\* given, which still has all its touchpoints.
C18_Witness ==
    /\ call.op = "apply_lookback_window"
    /\ Len(touchpoints) = MaxLen
    /\ Len(result.value) < Len(touchpoints)

\* C19: with the default parameters (half-life 7, first_last_weight 0.4),
\* every credit in the mapping a policy returns, for any touchpoint
\* sequence, is a fraction in [0, 1].
C19_CreditsAreFractions ==
    (call.op \in {"last_click", "first_click", "linear", "u_shaped"}
         /\ ~result.raised) =>
        \A channel \in DOMAIN result.value :
            /\ FLessEq(FZero, result.value[channel])
            /\ FLessEq(result.value[channel], FInt(1))

\* x <= y on rationals.
RLessEq(x, y) == ~RLess(y, x)

\* The bands of the ROAS threshold table 1.5 / 3.0 / 5.0 / 8.0, from the
\* worst label to the best, each with its lower bound included.
RoasLabels ==
    <<"Poor ROAS", "Below average ROAS", "Average ROAS", "Good ROAS",
      "Excellent ROAS">>

InRoasBand(rank, ratio) ==
    CASE rank = 1 -> RLess(ratio, Rat(3, 2))
      [] rank = 2 -> RLessEq(Rat(3, 2), ratio) /\ RLess(ratio, Rat(3, 1))
      [] rank = 3 -> RLessEq(Rat(3, 1), ratio) /\ RLess(ratio, Rat(5, 1))
      [] rank = 4 -> RLessEq(Rat(5, 1), ratio) /\ RLess(ratio, Rat(8, 1))
      [] rank = 5 -> RLessEq(Rat(8, 1), ratio)

\* x <= y on non-negative rationals, comparing the integer parts before the
\* fractional ones (the cross products of RLess leave TLC's integers on
\* ratios of the large amounts).
RatioLessEq(x, y) ==
    IF x[1] \div x[2] # y[1] \div y[2] THEN x[1] \div x[2] < y[1] \div y[2]
    ELSE (x[1] % x[2]) * y[2] <= (y[1] % y[2]) * x[2]

\* The position of a label in RoasLabels.
RoasRank(label) == CHOOSE rank \in 1..Len(RoasLabels) : RoasLabels[rank] = label

\* C21: calculate_roas with ad_spend > 0 returns revenue / ad_spend and
\* the label of the band the ratio lies in (Poor below 1.5, Below average
\* from 1.5, Average from 3, Good from 5, Excellent from 8, each lower
\* bound included); the ratio lies in exactly one band, and no call with a
\* larger ratio gets a worse label.
C21_RoasBands ==
    (call.op = "calculate_roas" /\ RLess(RZero, call.y)) =>
        /\ ~result.raised
        /\ result.value.value = RDiv(call.x, call.y)
        /\ result.value.message \in {RoasLabels[rank] : rank \in 1..Len(RoasLabels)}
        /\ \A rank \in 1..Len(RoasLabels) :
               InRoasBand(rank, result.value.value)
                   <=> result.value.message = RoasLabels[rank]
        /\ \A revenue \in Amounts, ad_spend \in Amounts :
               (RLess(RZero, ad_spend)
                    /\ RatioLessEq(result.value.value, RDiv(revenue, ad_spend))) =>
                   RoasRank(result.value.message)
                       <= RoasRank(calculate_roas(revenue, ad_spend).value.message)

\* The documented example: 359400 / 10000 = 35.94, an excellent ROAS.
C21_Witness ==
    /\ call.op = "calculate_roas"
    /\ call.x = Rat(359400, 1)
    /\ call.y = Rat(10000, 1)
    /\ result.value.value = Rat(3594, 100)
    /\ result.value.message = "Excellent ROAS"

\* A ratio on a threshold gets the label of the band above it.
C21_OnThreshold ==
    /\ call.op = "calculate_roas"
    /\ result.value.value = Rat(5, 1)
    /\ result.value.message = "Good ROAS"

\* A call of calculate_ctr or calculate_cvr with a denominator that is not
\* zero.
RateCalled == call.op \in {"calculate_ctr", "calculate_cvr"} /\ call.y # RZero

\* The benchmark table of the called rate, as percentages.
RateBenchmarks ==
    LET benchmarks == IF call.op = "calculate_ctr" THEN industry_benchmarks.ctr
                      ELSE industry_benchmarks.cvr
    IN  [level \in DOMAIN benchmarks |-> RMul(benchmarks[level], Rat(100, 1))]

\* C22: calculate_ctr and calculate_cvr classify the percentage against the
\* four-level benchmark table (poor 0.5%, average 1.5%, good 3%, excellent
\* 5%): a value is labelled Excellent only if it is at least 5%, and Good
\* only if it is at least 3%.
C22_RateLabelsFollowBenchmarks ==
    RateCalled =>
        /\ result.value.message \in {"Excellent CTR", "Excellent CVR"} =>
               RLessEq(RateBenchmarks.excellent, result.value.value)
        /\ result.value.message \in {"Good CTR", "Good CVR"} =>
               RLessEq(RateBenchmarks.good, result.value.value)

\* The factors the documented rules give a ROAS, the ends of the bands
\* "3-5", "2-3" and "1-2" included: above 5 it is 1.20, from 3 to 5 it is
\* 1.10, from 2 to 3 it is 1.00, from 1 to 2 it is 0.90, below 1 it is 0.70.
BidRules(roas) ==
    { [factor |-> Decimal(120, 100), applies |-> FLess(FInt(5), roas)],
      [factor |-> Decimal(110, 100),
       applies |-> FLessEq(FInt(3), roas) /\ FLessEq(roas, FInt(5))],
      [factor |-> FInt(1),
       applies |-> FLessEq(FInt(2), roas) /\ FLessEq(roas, FInt(3))],
      [factor |-> Decimal(90, 100),
       applies |-> FLessEq(FInt(1), roas) /\ FLessEq(roas, FInt(2))],
      [factor |-> Decimal(70, 100), applies |-> FLess(roas, FInt(1))] }

DocumentedFactors(roas) ==
    {rule.factor : rule \in {r \in BidRules(roas) : r.applies}}

\* C23: suggest_bid_adjustments returns one suggestion per input channel
\* with suggested_bid = current_bid * factor, the factor being the one the
\* documented rules give the channel's ROAS (1.20 above 5, 1.10 for 3-5,
\* 1.00 for 2-3, 0.90 for 1-2, and 0.70 only below 1).
C23_BidFactorsFollowTheRules ==
    call.op = "suggest_bid_adjustments" =>
        /\ ~result.raised
        /\ DOMAIN result.value = DOMAIN call.current_performance
        /\ \A channel \in DOMAIN result.value :
               LET data == call.current_performance[channel]
               IN  result.value[channel].suggested_bid \in
                       {FMul(Get(data, "current_bid", FInt(1)), factor) :
                            factor \in DocumentedFactors(Get(data, "roas", FInt(0)))}

\* C24: time_decay_attribution called with a non-empty touchpoint list and
\* half_life_days = 0 (against "must be > 0") does not abort: it returns a
\* result rather than raising a division fault.
C24_ZeroHalfLifeDoesNotRaise ==
    (CalledNonEmpty("time_decay") /\ call.half_life_days = 0) =>
        ~result.raised

\* C25: simulate_campaign called with a channel key that is not one of the
\* defined channels signals the problem by a sentinel return value rather
\* than by a thrown fault.
C25_UnknownChannelDoesNotRaise ==
    (call.op = "simulate_campaign" /\ call.channel \notin DOMAIN channels) =>
        ~result.raised

\* The credit of position i of n >= 2 touchpoints under the U-shaped
\* schedule with first-and-last weight w.
PositionalCredit(n, i, w) ==
    IF n = 2 THEN Rat(1, 2)
    ELSE IF i \in {1, n} THEN w
    ELSE RDiv(RSub(ROne, RAdd(w, w)), Rat(n - 2, 1))

\* The sum of the positional credits of the touchpoints of the channel at
\* the positions i .. Len(tps).
RECURSIVE PositionalSum(_, _, _, _)
PositionalSum(tps, channel, i, w) ==
    IF i > Len(tps) THEN RZero
    ELSE RAdd(IF tps[i].channel = channel
              THEN PositionalCredit(Len(tps), i, w) ELSE RZero,
              PositionalSum(tps, channel, i + 1, w))

\* C26: u_shaped_attribution accumulates credit per channel: for every list
\* of n >= 2 touchpoints a channel's credit is the sum of the positional
\* credits of all its touchpoints, also when the first and the last
\* touchpoint have the same channel and when an interior touchpoint has the
\* channel of the first or of the last.
C26_UShapedAccumulatesPerChannel ==
    (call.op = "u_shaped" /\ Len(touchpoints) >= 2) =>
        /\ ~result.raised
        /\ DOMAIN result.value = ChannelsOf(touchpoints)
        /\ \A channel \in DOMAIN result.value :
               result.value[channel]
                   = PositionalSum(touchpoints, channel, 1, call.first_last_weight)

\* C27: for total_budget > 0 and any number of channels with a positive
\* score sum, every channel's returned (post-correction) budget is
\* non-negative and at least 0.10 * total_budget.
C27_ReturnedBudgetsKeepTheFloor ==
    (BudgetCalled /\ PositiveScoreSum /\ FLess(FZero, call.total_budget)) =>
        /\ ~result.raised
        /\ \A i \in 1..Len(result.value) :
               /\ FLessEq(FZero, result.value[i].budget)
               /\ FLessEq(TenPercent, result.value[i].budget)

\* C28: in the result of calculate_optimal_budget_allocation every
\* channel's percentage is consistent with its returned budget: it equals
\* budget / total_budget * 100 rounded to one decimal, for the channel
\* adjusted by the residual correction too.
C28_PercentageFollowsBudget ==
    (BudgetCalled /\ ~result.raised) =>
        \A i \in 1..Len(result.value) :
            result.value[i].percentage
                = FRound(FMul(FDiv(result.value[i].budget, call.total_budget),
                              FInt(100)), 10)

====
